---- MODULE Spec2Model ----
(***************************************************************************)
(* SentinalOS process management.                                          *)
(*                                                                         *)
(* The repository holds two process managers that share no state:         *)
(*   - kernel/sched/scheduler.c : a 256-slot PCB table, a LIFO ready list, *)
(*     an idle PCB (PID 0) and a Bell-LaPadula check (sched_state,         *)
(*     current_process);                                                   *)
(*   - kernel/core/process.c    : kmalloc'ed PCBs on an intrusive process  *)
(*     list and a priority ready queue that use the SAME next/prev links,  *)
(*     plus kernel/core/syscalls.c, which keeps its own file-static        *)
(*     current_process / process_list / next_pid.                          *)
(* Pointers are modelled as indices (NULL == 0): slot s of process_table   *)
(* is index s+1, the n-th kmalloc'ed PCB is heap address n.  kfree is a    *)
(* no-op in kernel/mm/memory.c, so a released PCB keeps its contents; the  *)
(* model only remembers that it was released.                              *)
(* syscalls.c also keeps the file table, indexed by descriptor number and  *)
(* shared by all processes.  Functions the sources declare and never       *)
(* define (security_validate_syscall, security_audit_log, fs_get_inode,    *)
(* fs_create_file, fs_read_inode, fs_write_inode) are the environment of   *)
(* the kernel: what they answer is an input of the call.                   *)
(***************************************************************************)
EXTENDS Integers, Sequences, FiniteSets, TLC

NULL == 0

\* ---- bounds of the model ------------------------------------------------
TableSize == 3      \* slots of process_table explored (256 in the source)
MaxPid    == 3      \* create_process / process_create stop being called at this next_pid
MaxPcb    == 3      \* PCBs kmalloc'ed by process.c in one run
MaxPages  == 1     \* pages sys_mmap and sys_brk take from the heap in one run
MaxTicks  == 2     \* scheduling passes of process.c in one run
MaxFiles  == 4      \* entries of file_table explored (MAX_OPEN_FILES, 256 in the source)
MaxOffset == 1      \* file offsets explored
MaxCount  == 1      \* byte counts passed to read and write
MaxMemOps == 5      \* operations of memory.c in one run
MaxVfsOps == 3      \* calls of vfs.c in one run
MaxWindows == 3     \* slots of manager->windows explored (MAX_WINDOWS is 32)
MaxGuiOps == 4      \* calls of window_manager.c in one run

\* ---- program constants --------------------------------------------------
SEC_PENTAGON     == 4
SCHED_PRIORITY   == 10   \* create_process: proc->priority = 10
INIT_PRIORITY    == 10   \* process_init: init_proc->priority = 10
DEFAULT_PRIORITY == 20   \* process_create: proc->priority = 20
TIMER_QUANTUM    == 10   \* scheduler_timer_interrupt: >= 10
SEC_SECRET       == 2    \* syscall_handler: security_level >= 2 is audited
FIRST_FD         == 3    \* sys_open: 0, 1, 2 are reserved
O_CREAT          == 64   \* sys_open: flags & 0x40
INITIAL_BRK      == 4194304      \* sys_brk: current_brk = 0x400000
MMAP_BASE        == 268435456    \* sys_mmap: 0x10000000
READ_BIT         == 1         \* vfs_read: file->flags & 0x01
WRITE_BIT        == 2         \* vfs_write: file->flags & 0x02

SecLevels  == 0 .. SEC_PENTAGON
SecInputs  == {0, 2, SEC_PENTAGON}   \* classifications passed to create_process
Slots      == 1 .. TableSize
ExitCodes  == {0, 7}                 \* statuses passed to exit
Fds        == 0 .. MaxFiles - 1      \* indices of file_table
FlagInputs == {1, 2, O_CREAT + 3}   \* open flags: bit 0x01 read, 0x02 write (vfs.c)

VARIABLES
    booted,           \* what this run exercises: "boot" (kernel_main),
                      \* "sched" (scheduler.c), "proc"
                      \* (process.c and the process calls), "file" (the file calls),
                      \* "heap" (memory.c),
                      \* "vfs" (vfs.c) or "gui" (window_manager.c)
    sched_state,      \* scheduler.c: static struct sched_state
    current_process,  \* scheduler.c: struct process *current_process
    heap,             \* process.c / syscalls.c: the kmalloc'ed PCBs, by address
    pm,               \* process.c: its file-static variables
    sys,              \* syscalls.c: its file-static variables
    file_table,       \* syscalls.c: static struct file_descriptor file_table[]
    hung,             \* the kernel entered a loop that never ends
    waiting,          \* syscalls.c: the child the sys_waitpid under way waits for
    destroying,       \* process.c: the PCB a process_destroy under way has unlinked
                      \* and not yet passed to kfree
                      \* (it is between two passes of its loop), NULL when none
    enq,              \* history: PCBs on the ready queue, in the order they were enqueued
    exit_code,        \* history: the status each PCB passed to exit
    mm_state,         \* memory.c: static mm_state, early_heap_offset, and the PANIC
    mem_ops,          \* history: the number of operations of memory.c so far
    vfs_state,        \* vfs.c: its file-static variables
    vfs_last,         \* history: the last call of vfs.c, what it returned and called
    vfs_ops,          \* history: the number of calls of vfs.c so far
    gui_manager,      \* window_manager.c: the struct gui_security_manager of the calls
    gui_crashed,      \* the process of the GUI was killed inside a call
    gui_ops           \* history: the number of calls of the GUI so far

vars == <<booted, sched_state, current_process, heap, pm, sys, file_table, hung,
          waiting, destroying, enq, exit_code, mm_state, mem_ops, vfs_state, vfs_last,
          vfs_ops, gui_manager, gui_crashed, gui_ops>>

\* bit b (a power of two) is set in flags
HasBit(flags, b) == (flags \div b) % 2 = 1

\* sequence s without the element x
SeqWithout(s, x) == SelectSeq(s, LAMBDA e : e # x)

HANG == -2    \* result of a list walk that never ends (no pointer, NULL or not, has this value)

(***************************************************************************)
(* kernel/mm/memory.c                                                      *)
(* A page pointer is the page frame number it points at (page -            *)
(* mm_state.page_array), NOPAGE for NULL.  kernel_heap_ptr is kept as the  *)
(* distance in bytes from heap_origin, which is KERNEL_HEAP_START until an *)
(* addition passes 2^64 and "zero" from then on.  panic is the message of  *)
(* the PANIC that halted the kernel, "" while it runs.  used_memory is     *)
(* kept in units of 8 bytes (every size added is rounded to 8).  The page   *)
(* allocator (buddy_alloc_pages, buddy_free_pages) is static in memory.c   *)
(* and called from nowhere, and mm_init does not come to set initialized:  *)
(* the states a run of the kernel passes through are those of the early    *)
(* heap.                                                                   *)
(***************************************************************************)

NOPAGE            == -1
PAGE_SIZE         == 4096         \* memory.c, kernel.h, system.h
ZONE_COUNT        == 3
NUM_ORDERS        == 12           \* free_pages[12]; current_order < 12
EARLY_HEAP_SIZE   == 1048576      \* early_heap[1024 * 1024]
KERNEL_HEAP_SIZE  == 268435456    \* 0x10000000
HEAP_START_TO_TOP == 1879048192   \* 2^64 - KERNEL_HEAP_START (0xFFFFFFFF90000000)
PAGE_DESC_SIZE    == 24           \* sizeof(struct page), packed: 8 + 4 + 4 + 8
SOURCE_TOTAL_PAGES == 131072      \* mm_init: (512 * 1024 * 1024) >> PAGE_SHIFT

Zones  == 0 .. ZONE_COUNT - 1
Orders == 0 .. NUM_ORDERS - 1

\* (x + a - 1) & ~(a - 1), a a power of two
AlignUp(x, a) == ((x + a - 1) \div a) * a

\* a page descriptor as mm_init leaves it
ZeroPage == [flags |-> 0, ref_count |-> 0, order |-> 0, next |-> NOPAGE]

\* mm_state and early_heap_offset as their static initialisers leave them
MmStatic ==
    [zones |-> [z \in Zones |->
                   [free_pages |-> [o \in Orders |-> NOPAGE], free_pages_count |-> 0]],
     page_array |-> <<>>,
     heap_origin |-> "zero",
     kernel_heap_ptr |-> 0,
     used_memory |-> 0,
     initialized |-> FALSE,
     early_heap_offset |-> 0,
     hung |-> FALSE,
     panic |-> ""]

\* early_kmalloc: {m, ret}; ret is the offset in early_heap
early_kmalloc(m, size) ==
    LET sz == AlignUp(size, 8)
    IN  IF m.early_heap_offset + sz > EARLY_HEAP_SIZE
        THEN [m |-> [m EXCEPT !.panic = "Early heap exhausted"], ret |-> NOPAGE]
        ELSE [m |-> [m EXCEPT !.early_heap_offset = @ + sz],
              ret |-> m.early_heap_offset]

\* kmalloc: {m, ret}; ret is the value of kernel_heap_ptr handed out (or the
\* offset in early_heap).  The sum kernel_heap_ptr + size is a uint64_t: from
\* KERNEL_HEAP_START it passes 2^64 when the distance reaches
\* HEAP_START_TO_TOP, and then compares below the end of the heap.
kmalloc(m, size) ==
    IF ~m.initialized THEN early_kmalloc(m, size)
    ELSE LET sz   == AlignUp(size, 8)
             sum8 == m.kernel_heap_ptr \div 8 + sz \div 8
             wrap == m.heap_origin = "KERNEL_HEAP_START" /\ sum8 >= HEAP_START_TO_TOP \div 8
             over == m.heap_origin = "KERNEL_HEAP_START" /\ ~wrap
                         /\ sum8 > KERNEL_HEAP_SIZE \div 8
         IN  IF over
             THEN [m |-> [m EXCEPT !.panic = "Kernel heap exhausted"], ret |-> NOPAGE]
             ELSE [m |-> [m EXCEPT !.kernel_heap_ptr =
                                       IF wrap THEN (sum8 - HEAP_START_TO_TOP \div 8) * 8
                                       ELSE sum8 * 8,
                                   !.heap_origin = IF wrap THEN "zero" ELSE @,
                                   !.used_memory = @ + sz \div 8],
                   ret |-> m.kernel_heap_ptr]

\* kmalloc_aligned: {m, ret}; alignment is a power of two (KERNEL_HEAP_START
\* is a multiple of 2^28, so aligning the distance aligns the address)
kmalloc_aligned(m, size, alignment) ==
    IF ~m.initialized
    THEN early_kmalloc([m EXCEPT !.early_heap_offset = AlignUp(@, alignment)], size)
    ELSE kmalloc([m EXCEPT !.kernel_heap_ptr = AlignUp(@, alignment)], size)

\* kfree
kfree(m, ptr) == m

\* n calls of kmalloc(PAGE_SIZE) in a row before mm_init: early_kmalloc moves
\* early_heap_offset by PAGE_SIZE for as many calls as the early heap holds
\* and panics in the next one
EarlyPages(m, n) ==
    LET fit  == (EARLY_HEAP_SIZE - m.early_heap_offset) \div PAGE_SIZE
        full == [m EXCEPT !.early_heap_offset = @ + PAGE_SIZE * (IF n <= fit THEN n ELSE fit)]
    IN  IF n <= fit THEN full ELSE early_kmalloc(full, PAGE_SIZE).m

\* the pointer the next kmalloc or kmalloc_aligned hands out is NULL: the heap
\* pointer is 0, which it is only after a sum that came to exactly 2^64 (an
\* address in early_heap is never NULL)
NullPtr(m) == m.initialized /\ m.heap_origin = "zero" /\ m.kernel_heap_ptr = 0

\* mm_init: total_memory is 512 MiB; init_memory_zones empties the free
\* lists, the page array comes from early_kmalloc
mm_init(m) ==
    LET total_pages == SOURCE_TOTAL_PAGES
        m1 == [m EXCEPT !.zones = [z \in Zones |->
                                      [@[z] EXCEPT !.free_pages = [o \in Orders |-> NOPAGE]]],
                        !.heap_origin = "KERNEL_HEAP_START",
                        !.kernel_heap_ptr = 0,
                        !.used_memory = 0]
        a  == early_kmalloc(m1, total_pages * PAGE_DESC_SIZE)
    IN  IF a.m.panic # "" THEN a.m
        ELSE [a.m EXCEPT !.page_array = [p \in 0 .. total_pages - 1 |-> ZeroPage],
                         !.initialized = TRUE]

(***************************************************************************)
(* kernel/sched/scheduler.c                                                *)
(* A state k of the scheduler is [ss, cp, enq, m]: sched_state,            *)
(* current_process, the history of the ready queue and the state of        *)
(* memory.c, from which create_process takes the stack of a process.  A    *)
(* PANIC of memory.c halts the kernel inside the call that asked for       *)
(* memory: k.m.panic says so, and what the call had written by then stays. *)
(***************************************************************************)

STACK_SIZE == 16384    \* create_process: proc->stack_size = 0x4000

\* a process_table slot after memset(.., 0, ..): PROC_RUNNING is enum value 0
ZeroSlot ==
    [pid |-> 0, ppid |-> 0, state |-> "RUNNING", sec_level |-> 0,
     priority |-> 0, next |-> NULL, prev |-> NULL]

\* alloc_process: the first DEAD slot, zeroed; NULL when there is none
alloc_process(k) ==
    LET dead == {s \in Slots : k.ss.process_table[s].state = "DEAD"}
    IN  IF dead = {} THEN [k |-> k, proc |-> NULL]
        ELSE LET s == CHOOSE x \in dead : \A y \in dead : x <= y
             IN  [k |-> [k EXCEPT !.ss.process_table[s] = ZeroSlot], proc |-> s]

\* add_to_ready_queue: push at the head of the list
add_to_ready_queue(k, proc) ==
    LET k1 == [k EXCEPT !.ss.process_table[proc].state = "READY",
                        !.ss.process_table[proc].next = k.ss.ready_queue,
                        !.ss.process_table[proc].prev = NULL]
        k2 == IF k1.ss.ready_queue # NULL
              THEN [k1 EXCEPT !.ss.process_table[k1.ss.ready_queue].prev = proc]
              ELSE k1
    IN  [k2 EXCEPT !.ss.ready_queue = proc,
                   !.enq = Append(SeqWithout(k.enq, proc), proc)]

\* remove_from_ready_queue: unlink through the PCB's own prev/next
remove_from_ready_queue(k, proc) ==
    LET t0 == k.ss.process_table
        k1 == IF t0[proc].prev # NULL
              THEN [k EXCEPT !.ss.process_table[t0[proc].prev].next = t0[proc].next]
              ELSE [k EXCEPT !.ss.ready_queue = t0[proc].next]
        t1 == k1.ss.process_table
        k2 == IF t1[proc].next # NULL
              THEN [k1 EXCEPT !.ss.process_table[t1[proc].next].prev = t1[proc].prev]
              ELSE k1
    IN  [k2 EXCEPT !.ss.process_table[proc].next = NULL,
                   !.ss.process_table[proc].prev = NULL,
                   !.enq = SeqWithout(k.enq, proc)]

\* security_check with the read rule applied to every operation
security_check_write_reversed(src, dest, operation) ==
    src.sec_level >= dest.sec_level

\* security_check: operation 0 is read (no read up), anything else write (no write down)
security_check(src, dest, operation) ==
    IF operation = 0 THEN src.sec_level >= dest.sec_level
                     ELSE src.sec_level <= dest.sec_level

\* context_switch: nothing at all when either side is NULL
context_switch(k, from, to) ==
    IF from = NULL \/ to = NULL THEN k
    ELSE LET k1 == [k EXCEPT !.ss.process_table[from].state = "READY"]
         IN  [k1 EXCEPT !.cp = to, !.ss.process_table[to].state = "RUNNING"]

\* schedule
schedule(k) ==
    IF ~k.ss.initialized \/ k.ss.ready_queue = NULL THEN k
    ELSE LET next == k.ss.ready_queue
             t    == k.ss.process_table
         IN  IF k.cp # NULL /\ ~security_check(t[k.cp], t[next], 0) THEN k
             ELSE LET k1 == remove_from_ready_queue(k, next)
                      k2 == IF k1.cp # NULL /\ k1.ss.process_table[k1.cp].state = "RUNNING"
                            THEN add_to_ready_queue(k1, k1.cp)
                            ELSE k1
                  IN  context_switch(k2, k2.cp, next)

\* create_process taking its PID before it asks for a slot
create_process_pid_first(k, sec_level) ==
    LET a == alloc_process(k)
    IN  IF a.proc = NULL
        THEN [k |-> [k EXCEPT !.ss.next_pid = k.ss.next_pid + 1], proc |-> NULL]
        ELSE LET p  == a.proc
                 k1 == [a.k EXCEPT
                          !.ss.process_table[p].pid = k.ss.next_pid,
                          !.ss.next_pid = k.ss.next_pid + 1,
                          !.ss.process_table[p].ppid =
                              IF k.cp = NULL THEN 0
                              ELSE IF k.cp = p THEN k.ss.next_pid
                              ELSE a.k.ss.process_table[k.cp].pid,
                          !.ss.process_table[p].state = "READY",
                          !.ss.process_table[p].sec_level = sec_level]
                 stack == kmalloc_aligned(k1.m, STACK_SIZE, PAGE_SIZE)
                 k2 == [k1 EXCEPT !.m = stack.m,
                                  !.ss.process_table[p].priority = SCHED_PRIORITY]
                 k3 == add_to_ready_queue(k2, p)
             IN  IF stack.m.panic # ""
                 THEN [k |-> [k1 EXCEPT !.m = stack.m], proc |-> NULL]
                 ELSE [k |-> [k3 EXCEPT !.ss.total_processes = k3.ss.total_processes + 1],
                       proc |-> p]

\* create_process: {k: the new state, proc: the slot, NULL on failure}.  The
\* stack comes from kmalloc_aligned after the PID, the parent, the state and
\* the level were stored (the parent is read after the PID is written, so a
\* current_process that is the slot handed out gives the new PID); when that
\* panics the call does not return (proc is NULL here) and the slot stays as
\* it was then: READY, on no queue, not counted
create_process(k, sec_level) ==
    LET a == alloc_process(k)
    IN  IF a.proc = NULL THEN a
        ELSE LET p  == a.proc
                 k1 == [a.k EXCEPT
                          !.ss.process_table[p].pid = k.ss.next_pid,
                          !.ss.next_pid = k.ss.next_pid + 1,
                          !.ss.process_table[p].ppid =
                              IF k.cp = NULL THEN 0
                              ELSE IF k.cp = p THEN k.ss.next_pid
                              ELSE a.k.ss.process_table[k.cp].pid,
                          !.ss.process_table[p].state = "READY",
                          !.ss.process_table[p].sec_level = sec_level]
                 stack == kmalloc_aligned(k1.m, STACK_SIZE, PAGE_SIZE)
                 k2 == [k1 EXCEPT !.m = stack.m,
                                  !.ss.process_table[p].priority = SCHED_PRIORITY]
                 k3 == add_to_ready_queue(k2, p)
             IN  IF stack.m.panic # ""
                 THEN [k |-> [k1 EXCEPT !.m = stack.m], proc |-> NULL]
                 ELSE [k |-> [k3 EXCEPT !.ss.total_processes = k3.ss.total_processes + 1],
                       proc |-> p]

\* create_idle_process: slot 0, PID 0, RUNNING, Pentagon; it becomes current
create_idle_process(k) ==
    [k EXCEPT !.ss.process_table[1] =
                  [ZeroSlot EXCEPT !.pid = 0, !.state = "RUNNING", !.sec_level = SEC_PENTAGON],
              !.cp = 1,
              !.ss.current = 1]

\* scheduler.c as its static initialisers leave it, with memory.c in state m:
\* nothing is current or queued and every slot of the table is zero
SchedStatic(m) ==
    [ss |-> [current |-> NULL, ready_queue |-> NULL,
             process_table |-> [s \in Slots |-> ZeroSlot],
             next_pid |-> 0, total_processes |-> 0, initialized |-> FALSE],
     cp |-> NULL, enq |-> <<>>, m |-> m]

\* scheduler_init, with memory.c in state m: sched_state is zeroed, every slot
\* made DEAD, idle and init are created
scheduler_init(m) ==
    LET k0 == [ss |-> [current |-> NULL, ready_queue |-> NULL,
                       process_table |-> [s \in Slots |-> [ZeroSlot EXCEPT !.state = "DEAD"]],
                       next_pid |-> 1, total_processes |-> 0, initialized |-> FALSE],
               cp |-> NULL, enq |-> <<>>, m |-> m]
        k1 == create_idle_process(k0)
        k2 == create_process(k1, SEC_PENTAGON).k
    IN  IF k2.m.panic # "" THEN k2 ELSE [k2 EXCEPT !.ss.initialized = TRUE]

\* get_process: the first slot with this pid that is not DEAD
get_process(k, pid) ==
    LET hit == {s \in Slots : k.ss.process_table[s].pid = pid
                              /\ k.ss.process_table[s].state # "DEAD"}
    IN  IF hit = {} THEN NULL ELSE CHOOSE x \in hit : \A y \in hit : x <= y

\* terminate_process (total_processes is a uint64_t: the value kept here is the
\* C value modulo 2^64, so -1 stands for the wrapped 2^64 - 1)
terminate_process(k, pid) ==
    LET proc == get_process(k, pid)
        t    == k.ss.process_table
    IN  IF proc = NULL THEN k
        ELSE IF k.cp # NULL /\ ~security_check(t[k.cp], t[proc], 1) THEN k
        ELSE LET k1 == IF t[proc].state = "READY" THEN remove_from_ready_queue(k, proc) ELSE k
                 k2 == [k1 EXCEPT !.ss.process_table[proc].state = "DEAD",
                                  !.ss.total_processes = k1.ss.total_processes - 1]
             IN  IF proc = k2.cp THEN schedule([k2 EXCEPT !.cp = NULL]) ELSE k2

(***************************************************************************)
(* kernel/core/process.c                                                   *)
(* A state k of this manager is [heap, pm, sys, file_table, hung,          *)
(* waiting, destroying, enq, exit_code, m]; m is the state of memory.c,    *)
(* from which the PCBs, page directories, stacks and contexts are taken.   *)
(* A loop of the source that never ends sets k.hung; nothing runs after it *)
(* (one CPU, a non-preemptive kernel).  A PANIC halts the kernel inside    *)
(* the call: k.m.panic holds the message, what the call had written by     *)
(* then stays, and the value given as returned means nothing.              *)
(* process_schedule switches to no other context and returns to its        *)
(* caller, so no other call comes in before a call has returned;          *)
(* interrupts are masked nowhere, so the timer can.  It is followed at the *)
(* two places where what it meets differs from the state between two       *)
(* calls: between two passes of the wait loop of sys_waitpid (k.waiting    *)
(* holds the child; the loop has no end of its own), and in                *)
(* process_destroy before its kfree(proc) (k.destroying holds the PCB,     *)
(* which is on no list and not yet released).                              *)
(***************************************************************************)

KERNEL_STACK_SIZE == 16384   \* system.h
SIZEOF_PROCESS    == 1320    \* sizeof(struct process), system.h
SIZEOF_CONTEXT    == 200     \* sizeof(struct cpu_context), system.h

\* the kernel runs: it neither hangs nor has panicked
Runs(k) == ~k.hung /\ k.m.panic = ""

\* run step F unless the kernel already hangs or has panicked
Then(k, F(_)) == IF Runs(k) THEN F(k) ELSE k

\* kernel_panic
Panic(k, message) == [k EXCEPT !.m.panic = message]

Hang(k) == [k EXCEPT !.hung = TRUE]

\* a PCB as process_init / process_create fill it in
NewPcb(pid, ppid, state, priority, uid, level, cpu) ==
    [pid |-> pid, ppid |-> ppid, state |-> state, priority |-> priority,
     uid |-> uid, security_level |-> level, cpu_time |-> cpu,
     open_files |-> {}, next |-> NULL, prev |-> NULL, freed |-> ""]

\* process_init: init is PID 1, RUNNING, current and alone on the process list;
\* next_pid keeps its value (1 by its static initialiser).  cpu is init's
\* cpu_time, which process_init never sets.  The kernel stack is not tested
\* for NULL.
process_init(k, cpu) ==
    LET init_proc == Len(k.heap) + 1
        k1 == [k EXCEPT !.m = kmalloc(k.m, SIZEOF_PROCESS).m]
        k2 == [k1 EXCEPT !.heap = Append(@, NewPcb(1, 0, "RUNNING", INIT_PRIORITY, 0,
                                                   SEC_PENTAGON, cpu)),
                         !.exit_code = Append(@, 0),
                         !.m = kmalloc(@, KERNEL_STACK_SIZE).m]
        k3 == [k2 EXCEPT !.m = kmalloc(@, SIZEOF_CONTEXT).m]
    IN  IF k1.m.panic # "" THEN k1
        ELSE IF NullPtr(k.m) THEN Panic(k1, "Failed to allocate init process")
        ELSE IF k2.m.panic # "" THEN k2
        ELSE IF k3.m.panic # "" THEN k3
        ELSE IF NullPtr(k2.m) THEN Panic(k3, "Failed to allocate init process context")
        ELSE [k3 EXCEPT !.heap[init_proc].next = NULL,
                        !.heap[init_proc].prev = NULL,
                        !.pm.process_list = init_proc,
                        !.pm.current_process = init_proc]

\* the while loop of add_to_ready_queue: the node after which proc goes, HANG
\* when the walk runs round a cycle
RECURSIVE InsertionPoint(_, _, _, _)
InsertionPoint(h, curr, priority, seen) ==
    IF curr \in seen THEN HANG
    ELSE IF h[curr].next # NULL /\ h[h[curr].next].priority >= priority
         THEN InsertionPoint(h, h[curr].next, priority, seen \cup {curr})
         ELSE curr

\* add_to_ready_queue (process.c): insert by priority, after the PCBs of the
\* same priority
pm_add_to_ready_queue(k, proc) ==
    IF proc = NULL \/ k.heap[proc].state # "READY" THEN k
    ELSE LET rq == k.pm.ready_queue
         IN  IF rq = NULL \/ k.heap[proc].priority > k.heap[rq].priority
             THEN LET k1 == [k EXCEPT !.heap[proc].next = rq]
                      k2 == IF rq # NULL THEN [k1 EXCEPT !.heap[rq].prev = proc] ELSE k1
                  IN  [k2 EXCEPT !.heap[proc].prev = NULL, !.pm.ready_queue = proc,
                                 !.enq = Append(SeqWithout(k.enq, proc), proc)]
             ELSE LET curr == InsertionPoint(k.heap, rq, k.heap[proc].priority, {})
                  IN  IF curr = HANG THEN Hang(k)
                      ELSE LET k1 == [k EXCEPT !.heap[proc].next = k.heap[curr].next]
                               k2 == IF k1.heap[curr].next # NULL
                                     THEN [k1 EXCEPT !.heap[k1.heap[curr].next].prev = proc]
                                     ELSE k1
                               k3 == [k2 EXCEPT !.heap[proc].prev = curr]
                           IN  [k3 EXCEPT !.heap[curr].next = proc,
                                          !.enq = Append(SeqWithout(k.enq, proc), proc)]

\* remove_from_ready_queue (process.c)
pm_remove_from_ready_queue(k, proc) ==
    IF proc = NULL THEN k
    ELSE LET h0 == k.heap
             k1 == IF h0[proc].prev # NULL
                   THEN [k EXCEPT !.heap[h0[proc].prev].next = h0[proc].next]
                   ELSE [k EXCEPT !.pm.ready_queue = h0[proc].next]
             h1 == k1.heap
             k2 == IF h1[proc].next # NULL
                   THEN [k1 EXCEPT !.heap[h1[proc].next].prev = h1[proc].prev]
                   ELSE k1
         IN  [k2 EXCEPT !.heap[proc].next = NULL, !.heap[proc].prev = NULL,
                        !.enq = SeqWithout(k.enq, proc)]

\* unlink proc from the process list (process_schedule, process_destroy)
UnlinkFromProcessList(k, proc) ==
    LET h0 == k.heap
        k1 == IF h0[proc].prev # NULL
              THEN [k EXCEPT !.heap[h0[proc].prev].next = h0[proc].next]
              ELSE [k EXCEPT !.pm.process_list = h0[proc].next]
        h1 == k1.heap
    IN  IF h1[proc].next # NULL
        THEN [k1 EXCEPT !.heap[h1[proc].next].prev = h1[proc].prev]
        ELSE k1

\* process_schedule, "Clean up zombie processes": walk the process list and
\* release every ZOMBIE.  seen holds the (position, memory) pairs the walk has
\* been in: meeting one again means the loop never ends.
RECURSIVE CleanUpZombies(_, _, _)
CleanUpZombies(k, proc, seen) ==
    IF proc = NULL THEN k
    ELSE IF <<proc, k.heap, k.pm.process_list>> \in seen THEN Hang(k)
    ELSE LET next == k.heap[proc].next
             k1   == IF k.heap[proc].state = "ZOMBIE"
                     THEN [UnlinkFromProcessList(k, proc) EXCEPT
                               !.heap[proc].freed = "process_schedule"]
                     ELSE k
         IN  CleanUpZombies(k1, next, seen \cup {<<proc, k.heap, k.pm.process_list>>})

\* process_schedule without the step that turns the outgoing PCB READY
process_schedule_keeps_current_running(k) ==
    IF k.pm.scheduler_lock # 0 THEN k
    ELSE LET k2 == [k EXCEPT !.pm.scheduler_lock = 1,
                             !.pm.scheduler_ticks = k.pm.scheduler_ticks + 1]
             next_proc == k2.pm.ready_queue
             Clean(k3) == CleanUpZombies(k3, k3.pm.process_list, {})
             Select(k3) ==
                 IF next_proc # NULL
                 THEN [pm_remove_from_ready_queue(k3, next_proc) EXCEPT
                           !.heap[next_proc].state = "RUNNING",
                           !.pm.current_process = next_proc,
                           !.pm.scheduler_lock = 0]
                 ELSE [k3 EXCEPT !.pm.current_process = NULL, !.pm.scheduler_lock = 0]
         IN  Then(Then(k2, Clean), Select)

\* process_schedule; it returns at once when the lock is held
process_schedule(k) ==
    IF k.pm.scheduler_lock # 0 THEN k
    ELSE LET k1 == [k EXCEPT !.pm.scheduler_lock = 1,
                             !.pm.scheduler_ticks = k.pm.scheduler_ticks + 1]
             cur == k1.pm.current_process
             k2 == IF cur # NULL /\ k1.heap[cur].state = "RUNNING"
                   THEN pm_add_to_ready_queue([k1 EXCEPT !.heap[cur].state = "READY"], cur)
                   ELSE k1
             next_proc == k2.pm.ready_queue
             Clean(k3) == CleanUpZombies(k3, k3.pm.process_list, {})
             Select(k3) ==
                 IF next_proc # NULL
                 THEN [pm_remove_from_ready_queue(k3, next_proc) EXCEPT
                           !.heap[next_proc].state = "RUNNING",
                           !.pm.current_process = next_proc,
                           !.pm.scheduler_lock = 0]
                 ELSE [k3 EXCEPT !.pm.current_process = NULL, !.pm.scheduler_lock = 0]
         IN  Then(Then(k2, Clean), Select)

\* process_find_by_pid: the first PCB on the process list with this pid, NULL
\* when the list ends, HANG when the walk runs round a cycle without a match
RECURSIVE process_find_by_pid(_, _, _, _)
process_find_by_pid(h, proc, pid, seen) ==
    IF proc = NULL THEN NULL
    ELSE IF h[proc].pid = pid THEN proc
    ELSE IF proc \in seen THEN HANG
    ELSE process_find_by_pid(h, h[proc].next, pid, seen \cup {proc})

FindByPid(k, pid) == process_find_by_pid(k.heap, k.pm.process_list, pid, {})

\* process_create: {k, ret}.  The PCB, the page directory, the kernel stack
\* and the context come from kmalloc in this order; the PID is taken once the
\* PCB is there.  A NULL PCB, page directory or context gives -1 (the stack is
\* not tested); with the lock already held the spin wait never ends
process_create(k) ==
    LET cur  == k.pm.current_process
        proc == Len(k.heap) + 1
        pcb  == NewPcb(k.pm.next_pid,
                       IF cur # NULL THEN k.heap[cur].pid ELSE 0,
                       "READY", DEFAULT_PRIORITY,
                       IF cur # NULL THEN k.heap[cur].uid ELSE 0,
                       IF cur # NULL THEN k.heap[cur].security_level ELSE 0,
                       0)
        k0   == [k EXCEPT !.pm.scheduler_lock = 1,
                          !.m = kmalloc(k.m, SIZEOF_PROCESS).m]
        k1   == [k0 EXCEPT !.heap = Append(k.heap, pcb),
                           !.exit_code = Append(k.exit_code, 0),
                           !.pm.next_pid = k.pm.next_pid + 1,
                           !.m = kmalloc(@, PAGE_SIZE).m]
        k1a  == [k1 EXCEPT !.m = kmalloc(@, KERNEL_STACK_SIZE).m]
        k1b  == [k1a EXCEPT !.m = kmalloc(@, SIZEOF_CONTEXT).m]
        pl   == k1b.pm.process_list
        k2   == [k1b EXCEPT !.heap[proc].next = pl]
        k3   == IF pl # NULL THEN [k2 EXCEPT !.heap[pl].prev = proc] ELSE k2
        k4   == [k3 EXCEPT !.heap[proc].prev = NULL, !.pm.process_list = proc]
        k5   == pm_add_to_ready_queue(k4, proc)
        Release(x) == [x EXCEPT !.pm.scheduler_lock = 0]
        Given_up(x) == [k |-> Release([x EXCEPT !.heap[proc].freed = "process_create"]),
                        ret |-> -1]
    IN  IF k.pm.scheduler_lock # 0 THEN [k |-> Hang(k), ret |-> 0]
        ELSE IF k0.m.panic # "" THEN [k |-> k0, ret |-> 0]
        ELSE IF NullPtr(k.m) THEN [k |-> Release(k0), ret |-> -1]
        ELSE IF k1.m.panic # "" THEN [k |-> k1, ret |-> 0]
        ELSE IF NullPtr(k0.m) THEN Given_up(k1)
        ELSE IF k1a.m.panic # "" THEN [k |-> k1a, ret |-> 0]
        ELSE IF k1b.m.panic # "" THEN [k |-> k1b, ret |-> 0]
        ELSE IF NullPtr(k1a.m) THEN Given_up(k1b)
        ELSE [k |-> Then(k5, Release), ret |-> pcb.pid]

\* process_destroy down to the return of process_schedule (process.c 300-353):
\* {k, ret}.  Where the call goes on to kfree(proc), k.destroying holds the
\* PCB: it is closed, off the ready queue and off the process list, and when it
\* was the current process another one was scheduled.  k.destroying is NULL
\* where the call has returned (ret is what it returned)
process_destroy_unlink(k, pid) ==
    LET proc == FindByPid(k, pid)
        cur  == k.pm.current_process
    IN  IF proc = HANG THEN [k |-> Hang(k), ret |-> 0]
        ELSE IF proc = NULL THEN [k |-> k, ret |-> -1]
        ELSE IF cur # NULL /\ k.heap[proc].uid # k.heap[cur].uid /\ k.heap[cur].uid # 0
             THEN [k |-> k, ret |-> -1]
        ELSE LET k0 == [k EXCEPT !.heap[proc].open_files = {}, !.destroying = proc]
                 k1 == IF k0.heap[proc].state = "READY"
                       THEN pm_remove_from_ready_queue(k0, proc) ELSE k0
                 k2 == UnlinkFromProcessList(k1, proc)
                 k3 == IF proc = cur
                       THEN process_schedule([k2 EXCEPT !.pm.current_process = NULL])
                       ELSE k2
             IN  [k |-> k3, ret |-> 0]

\* the end of process_destroy (process.c 355-356): kfree(proc); return 0
process_destroy_free(k) ==
    [k EXCEPT !.heap[k.destroying].freed = "process_destroy", !.destroying = NULL]

\* process_destroy, the whole call: {k, ret}
process_destroy(k, pid) ==
    LET u == process_destroy_unlink(k, pid)
    IN  IF u.k.destroying = NULL THEN u
        ELSE [k |-> Then(u.k, process_destroy_free), ret |-> 0]

\* scheduler_timer_interrupt (last_schedule is its static local)
scheduler_timer_interrupt(k) ==
    IF k.pm.scheduler_ticks - k.pm.last_schedule >= TIMER_QUANTUM
    THEN LET cur == k.pm.current_process
             k1  == [k EXCEPT !.pm.last_schedule = k.pm.scheduler_ticks]
             k2  == IF cur # NULL
                    THEN [k1 EXCEPT !.heap[cur].cpu_time = k1.heap[cur].cpu_time + 1]
                    ELSE k1
         IN  process_schedule(k2)
    ELSE k

\* process_exit: the status is printed and not kept; exit_code remembers it
process_exit(k, status) ==
    LET cur == k.pm.current_process
    IN  IF cur = NULL THEN k
        ELSE process_schedule([k EXCEPT !.heap[cur].state = "ZOMBIE",
                                        !.exit_code[cur] = status])

(***************************************************************************)
(* kernel/core/syscalls.c                                                  *)
(* Its current_process, process_list and next_pid are file-static and      *)
(* distinct from those of process.c; no statement of the file assigns      *)
(* current_process.  process_find_by_pid and process_schedule are those of *)
(* process.c.                                                              *)
(***************************************************************************)

SYS_EXIT    == 0
SYS_FORK    == 1
SYS_READ    == 2
SYS_WRITE   == 3
SYS_OPEN    == 4
SYS_CLOSE   == 5
SYS_WAITPID == 6
SYS_EXECVE  == 10
SYS_CHDIR   == 11
SYS_GETPID  == 15
SYS_KILL    == 27
SYS_BRK     == 34
SYS_MMAP    == 59
SYS_MAX     == 70

\* an entry of file_table that holds no file; opener is history: the process
\* (of process.c) that was running when sys_open filled the entry
ClosedFile ==
    [inode |-> NULL, offset |-> 0, flags |-> 0, mode |-> 0, ref_count |-> 0,
     opener |-> NULL]

\* file_table as its static initialiser leaves it
NoFiles == [fd \in Fds |-> ClosedFile]

\* syscall_init: the file table it leaves; it clears inode and ref_count of
\* every entry and nothing else of it
syscall_init(ft) ==
    [fd \in Fds |-> [ft[fd] EXCEPT !.inode = NULL, !.ref_count = 0, !.opener = NULL]]

\* syscall_init: the handler it binds to number n, "NULL" for a slot it leaves
\* empty
syscall_table(n) ==
    CASE n = SYS_EXIT    -> "sys_exit"
      [] n = SYS_FORK    -> "sys_fork"
      [] n = SYS_READ    -> "sys_read"
      [] n = SYS_WRITE   -> "sys_write"
      [] n = SYS_OPEN    -> "sys_open"
      [] n = SYS_CLOSE   -> "sys_close"
      [] n = SYS_GETPID  -> "sys_getpid"
      [] n = SYS_EXECVE  -> "sys_execve"
      [] n = SYS_WAITPID -> "sys_waitpid"
      [] n = SYS_KILL    -> "sys_kill"
      [] n = SYS_BRK     -> "sys_brk"
      [] n = SYS_MMAP    -> "sys_mmap"
      [] OTHER           -> "NULL"

\* userland/libc/src/syscalls.c: the number the stub of a call loads into rax,
\* the call named by the kernel handler it is meant for (wait4 for waitpid)
StubNumber(call) ==
    CASE call = "sys_read"    -> 0
      [] call = "sys_write"   -> 1
      [] call = "sys_open"    -> 2
      [] call = "sys_close"   -> 3
      [] call = "sys_mmap"    -> 9
      [] call = "sys_brk"     -> 12
      [] call = "sys_getpid"  -> 39
      [] call = "sys_fork"    -> 57
      [] call = "sys_execve"  -> 59
      [] call = "sys_exit"    -> 60
      [] call = "sys_waitpid" -> 61
      [] call = "sys_kill"    -> 62

\* the calls syscall_init binds
MandatoryCalls ==
    {"sys_read", "sys_write", "sys_open", "sys_close", "sys_getpid", "sys_fork",
     "sys_execve", "sys_exit", "sys_waitpid", "sys_kill", "sys_brk", "sys_mmap"}

\* What the functions outside the sources answer during one call:
\*   restricted, min_level : the allow-list of security_validate_syscall (the
\*                           numbers it restricts and the classification it asks)
\*   inode, inode2         : fs_get_inode, first call and call after a create
\*   created               : fs_create_file
\*   bytes                 : fs_read_inode / fs_write_inode
Env(restricted, min_level, inode, inode2, created, bytes) ==
    [restricted |-> restricted, min_level |-> min_level, inode |-> inode,
     inode2 |-> inode2, created |-> created, bytes |-> bytes]

security_validate_syscall(env, n, proc) ==
    IF n \in env.restricted /\ proc.security_level < env.min_level THEN -1 ELSE 0

fs_get_inode(env, again) == IF again THEN env.inode2 ELSE env.inode

fs_create_file(env) == env.created

fs_read_inode(env, count) == env.bytes

fs_write_inode(env, count) == env.bytes

\* sys_close: {k, ret}.  ref_count is a uint32_t: decrementing 0 gives
\* 0xFFFFFFFF, written -1 here (it is nonzero, which is all the code tests)
sys_close(k, fd) ==
    IF fd >= MaxFiles \/ k.file_table[fd].inode = NULL THEN [k |-> k, ret |-> -9]
    ELSE LET cur == k.sys.current_process
             rc  == k.file_table[fd].ref_count - 1
             k1  == IF rc = 0
                    THEN [k EXCEPT !.file_table[fd] = ClosedFile]
                    ELSE [k EXCEPT !.file_table[fd].ref_count = rc]
             k2  == IF cur # NULL
                    THEN [k1 EXCEPT !.heap[cur].open_files = @ \ {fd}]
                    ELSE k1
         IN  [k |-> k2, ret |-> 0]

\* sys_exit, "Close all open files": sys_close on every descriptor of the
\* caller, in ascending order
RECURSIVE CloseAllFiles(_, _)
CloseAllFiles(k, fds) ==
    IF fds = {} THEN k
    ELSE LET fd == CHOOSE x \in fds : \A y \in fds : x <= y
         IN  CloseAllFiles(sys_close(k, fd).k, fds \ {fd})

\* sys_exit: {k, ret}
sys_exit(k, status) ==
    LET cur == k.sys.current_process
    IN  IF cur = NULL THEN [k |-> k, ret |-> -1]
        ELSE LET k1 == CloseAllFiles(k, k.heap[cur].open_files)
             IN  [k |-> process_schedule([k1 EXCEPT !.heap[cur].state = "ZOMBIE",
                                                     !.exit_code[cur] = status]),
                  ret |-> 0]

\* sys_fork: {k, ret}; the child is a copy of the caller (its open_files too,
\* no ref_count is touched) with a PID taken from the next_pid of syscalls.c,
\* pushed on the process_list of syscalls.c.  The PCB and the page directory
\* come from kmalloc; a NULL one gives -12
sys_fork(k) ==
    LET cur == k.sys.current_process
    IN  IF cur = NULL THEN [k |-> k, ret |-> -1]
        ELSE LET child == Len(k.heap) + 1
                 pcb   == [k.heap[cur] EXCEPT !.pid = k.sys.next_pid,
                                              !.ppid = k.heap[cur].pid,
                                              !.state = "READY",
                                              !.freed = ""]
                 k0    == [k EXCEPT !.m = kmalloc(k.m, SIZEOF_PROCESS).m]
                 k1    == [k0 EXCEPT !.heap = Append(k.heap, pcb),
                                     !.exit_code = Append(k.exit_code, 0),
                                     !.sys.next_pid = k.sys.next_pid + 1,
                                     !.m = kmalloc(@, PAGE_SIZE).m]
                 pl    == k1.sys.process_list
                 k2    == [k1 EXCEPT !.heap[child].next = pl]
                 k3    == IF pl # NULL THEN [k2 EXCEPT !.heap[pl].prev = child] ELSE k2
             IN  IF k0.m.panic # "" THEN [k |-> k0, ret |-> 0]
                 ELSE IF NullPtr(k.m) THEN [k |-> k0, ret |-> -12]
                 ELSE IF k1.m.panic # "" THEN [k |-> k1, ret |-> 0]
                 ELSE IF NullPtr(k0.m)
                 THEN [k |-> [k1 EXCEPT !.heap[child].freed = "sys_fork"], ret |-> -12]
                 ELSE [k |-> [k3 EXCEPT !.heap[child].prev = NULL,
                                        !.sys.process_list = child],
                       ret |-> pcb.pid]

\* sys_read: {k, ret, driver}; buf is NULL or not
sys_read(k, env, fd, buf, count) ==
    IF fd >= MaxFiles \/ k.file_table[fd].inode = NULL THEN [k |-> k, ret |-> -9]
    ELSE IF buf = NULL \/ count = 0 THEN [k |-> k, ret |-> -14]
    ELSE LET bytes_read == fs_read_inode(env, count)
         IN  [k |-> IF bytes_read > 0
                    THEN [k EXCEPT !.file_table[fd].offset = @ + bytes_read]
                    ELSE k,
              ret |-> bytes_read, driver |-> "read"]

\* sys_write: {k, ret, console, driver}; console is the number of characters
\* printed
sys_write(k, env, fd, buf, count) ==
    IF fd >= MaxFiles THEN [k |-> k, ret |-> -9]
    ELSE IF buf = NULL \/ count = 0 THEN [k |-> k, ret |-> -14]
    ELSE IF fd = 1 \/ fd = 2 THEN [k |-> k, ret |-> count, console |-> count]
    ELSE IF k.file_table[fd].inode = NULL THEN [k |-> k, ret |-> -9]
    ELSE LET bytes_written == fs_write_inode(env, count)
         IN  [k |-> IF bytes_written > 0
                    THEN [k EXCEPT !.file_table[fd].offset = @ + bytes_written]
                    ELSE k,
              ret |-> bytes_written, driver |-> "write"]

\* sys_open, "Find free file descriptor": -1 when there is none
FreeFd(ft) ==
    IF \E i \in Fds : i >= FIRST_FD /\ ft[i].inode = NULL
    THEN CHOOSE i \in Fds : /\ i >= FIRST_FD /\ ft[i].inode = NULL
                            /\ \A j \in Fds : (j >= FIRST_FD /\ ft[j].inode = NULL) => i <= j
    ELSE -1

\* sys_open: {k, ret}; filename is NULL or not
sys_open(k, env, filename, flags, mode) ==
    LET cur   == k.sys.current_process
        fd    == FreeFd(k.file_table)
        first == fs_get_inode(env, FALSE)
        inode == IF first # NULL THEN first
                 ELSE IF HasBit(flags, O_CREAT) /\ fs_create_file(env) = 0
                      THEN fs_get_inode(env, TRUE)
                      ELSE NULL
    IN  IF filename = NULL THEN [k |-> k, ret |-> -14]
        ELSE IF fd = -1 THEN [k |-> k, ret |-> -24]
        ELSE IF inode = NULL THEN [k |-> k, ret |-> -2]
        ELSE LET k1 == [k EXCEPT !.file_table[fd] =
                            [inode |-> inode, offset |-> 0, flags |-> flags,
                             mode |-> mode, ref_count |-> 1,
                             opener |-> k.pm.current_process]]
             IN  [k |-> IF cur # NULL
                        THEN [k1 EXCEPT !.heap[cur].open_files = @ \cup {fd}]
                        ELSE k1,
                  ret |-> fd]

\* sys_getpid: {k, ret}
sys_getpid(k) ==
    LET cur == k.sys.current_process
    IN  [k |-> k, ret |-> IF cur # NULL THEN k.heap[cur].pid ELSE 1]

\* sys_execve: {k, ret}; only the name of the caller changes
sys_execve(k, filename) ==
    [k |-> k, ret |-> IF filename = NULL THEN -14 ELSE 0]

\* sys_waitpid, one pass of its wait loop: the caller is made BLOCKED and
\* process_schedule is called
waitpid_pass(k) ==
    process_schedule([k EXCEPT !.heap[k.sys.current_process].state = "BLOCKED"])

\* sys_waitpid past its wait loop, the child being ZOMBIE: {k, ret}.  The child
\* is unlinked from the process_list of syscalls.c and released, its PID is
\* returned
waitpid_reap(k, child) ==
    LET h0 == k.heap
        k1 == IF h0[child].prev # NULL
              THEN [k EXCEPT !.heap[h0[child].prev].next = h0[child].next]
              ELSE [k EXCEPT !.sys.process_list = h0[child].next]
        h1 == k1.heap
        k2 == IF h1[child].next # NULL
              THEN [k1 EXCEPT !.heap[h1[child].next].prev = h1[child].prev]
              ELSE k1
    IN  [k |-> [k2 EXCEPT !.heap[child].freed = "sys_waitpid"],
         ret |-> k.heap[child].pid]

\* sys_waitpid at the test of its wait loop: {k, ret}.  With the child ZOMBIE
\* the loop is left and the child reaped; with any other state the caller is
\* made BLOCKED and process_schedule is called, after which the call is back
\* at this test (ret means nothing then)
waitpid_test(k, child) ==
    IF k.heap[child].state = "ZOMBIE"
    THEN waitpid_reap([k EXCEPT !.waiting = NULL], child)
    ELSE [k |-> [waitpid_pass(k) EXCEPT !.waiting = child], ret |-> 0]

\* sys_waitpid, down to its return or to the end of the first pass of its
\* loop: {k, ret}.  process_schedule never stores ZOMBIE, so a loop that is
\* entered is left only when an interrupt that comes between two passes makes
\* the child ZOMBIE
sys_waitpid(k, pid) ==
    LET cur   == k.sys.current_process
        child == FindByPid(k, pid)
    IN  IF cur = NULL THEN [k |-> k, ret |-> -1]
        ELSE IF child = HANG THEN [k |-> Hang(k), ret |-> 0]
        ELSE IF child = NULL \/ k.heap[child].ppid # k.heap[cur].pid
             THEN [k |-> k, ret |-> -10]
        ELSE waitpid_test(k, child)

\* sys_kill: {k, ret}
sys_kill(k, pid) ==
    LET cur    == k.sys.current_process
        target == FindByPid(k, pid)
    IN  IF target = HANG THEN [k |-> Hang(k), ret |-> 0]
        ELSE IF target = NULL THEN [k |-> k, ret |-> -3]
        ELSE IF cur # NULL /\ k.heap[target].uid # k.heap[cur].uid /\ k.heap[cur].uid # 0
             THEN [k |-> k, ret |-> -1]
        ELSE [k |-> [k EXCEPT !.heap[target].state = "TERMINATED"], ret |-> 0]

\* sys_brk, one pass of its loop: kmalloc(PAGE_SIZE); a page that came back
\* NULL is not mapped and the loop goes on.  A kernel that has panicked makes
\* no pass
BrkPage(m) == IF m.panic # "" THEN m ELSE kmalloc(m, PAGE_SIZE).m

\* sys_brk, n passes of its loop: before mm_init every page is an early page;
\* after it the passes are made as those of the first half and then those of
\* the second
RECURSIVE BrkPages(_, _)
BrkPages(m, n) ==
    IF n = 0 \/ m.panic # "" THEN m
    ELSE IF ~m.initialized THEN EarlyPages(m, n)
    ELSE IF n = 1 THEN BrkPage(m)
    ELSE BrkPages(BrkPages(m, n \div 2), n - n \div 2)

\* sys_brk: {k, ret}; current_brk is its static local.  map_page is declared
\* in system.h and defined nowhere: what it does is not part of the state
sys_brk(k, addr) ==
    IF k.sys.current_process = NULL THEN [k |-> k, ret |-> -1]
    ELSE IF addr = 0 THEN [k |-> k, ret |-> k.sys.current_brk]
    ELSE LET pages_needed == IF addr > k.sys.current_brk
                             THEN (addr - k.sys.current_brk + PAGE_SIZE - 1) \div PAGE_SIZE
                             ELSE 0
             m1 == BrkPages(k.m, pages_needed)
         IN  IF m1.panic # "" THEN [k |-> [k EXCEPT !.m = m1], ret |-> 0]
             ELSE [k |-> [k EXCEPT !.m = m1, !.sys.current_brk = addr], ret |-> addr]

\* sys_mmap, one pass of its loop: kmalloc(PAGE_SIZE), given up with -12 when
\* the page came back NULL; {m, ret}.  No pass is made once the call has
\* returned or the kernel has panicked
MmapPage(r) ==
    IF r.m.panic # "" \/ r.ret # 0 THEN r
    ELSE [m |-> kmalloc(r.m, PAGE_SIZE).m, ret |-> IF NullPtr(r.m) THEN -12 ELSE 0]

\* sys_mmap, n passes of its loop: before mm_init every page is an early page
\* and none is NULL; after it the passes are made as those of the first half
\* and then those of the second
RECURSIVE MmapPages(_, _)
MmapPages(r, n) ==
    IF n = 0 \/ r.m.panic # "" \/ r.ret # 0 THEN r
    ELSE IF ~r.m.initialized THEN [r EXCEPT !.m = EarlyPages(@, n)]
    ELSE IF n = 1 THEN MmapPage(r)
    ELSE MmapPages(MmapPages(r, n \div 2), n - n \div 2)

\* sys_mmap: {k, ret}
sys_mmap(k, addr, length) ==
    IF length = 0 THEN [k |-> k, ret |-> -22]
    ELSE LET pages_needed == (length + PAGE_SIZE - 1) \div PAGE_SIZE
             r == MmapPages([m |-> k.m, ret |-> 0], pages_needed)
         IN  [k   |-> [k EXCEPT !.m = r.m],
              ret |-> IF r.m.panic # "" THEN 0
                      ELSE IF r.ret # 0 THEN r.ret
                      ELSE IF addr # 0 THEN addr ELSE MMAP_BASE]

\* the handler bound to syscall_num, called with the first three arguments
Invoke(k, env, syscall_num, arg1, arg2, arg3) ==
    CASE syscall_table(syscall_num) = "sys_exit"    -> sys_exit(k, arg1)
      [] syscall_table(syscall_num) = "sys_fork"    -> sys_fork(k)
      [] syscall_table(syscall_num) = "sys_read"    -> sys_read(k, env, arg1, arg2, arg3)
      [] syscall_table(syscall_num) = "sys_write"   -> sys_write(k, env, arg1, arg2, arg3)
      [] syscall_table(syscall_num) = "sys_open"    -> sys_open(k, env, arg1, arg2, arg3)
      [] syscall_table(syscall_num) = "sys_close"   -> sys_close(k, arg1)
      [] syscall_table(syscall_num) = "sys_getpid"  -> sys_getpid(k)
      [] syscall_table(syscall_num) = "sys_execve"  -> sys_execve(k, arg1)
      [] syscall_table(syscall_num) = "sys_waitpid" -> sys_waitpid(k, arg1)
      [] syscall_table(syscall_num) = "sys_kill"    -> sys_kill(k, arg1)
      [] syscall_table(syscall_num) = "sys_brk"     -> sys_brk(k, arg1)
      [] syscall_table(syscall_num) = "sys_mmap"    -> sys_mmap(k, arg1, arg2)

\* syscall_handler once the handler has answered r for caller cur: the call
\* of a caller classified SECRET or above is audited
Invoked(k, cur, syscall_num, r) ==
    [k       |-> r.k,
     ret     |-> r.ret,
     handler |-> syscall_table(syscall_num),
     audit   |-> IF cur # NULL /\ k.heap[cur].security_level >= SEC_SECRET
                 THEN << <<"SYSCALL", k.heap[cur].pid, syscall_num>> >>
                 ELSE <<>>,
     console |-> IF "console" \in DOMAIN r THEN r.console ELSE 0,
     driver  |-> IF "driver" \in DOMAIN r THEN r.driver ELSE "none"]

\* syscall_handler as it would be if it took the running process of process.c
\* for its caller
syscall_handler_knows_caller(k, env, syscall_num, arg1, arg2, arg3) ==
    LET cur    == k.pm.current_process
        silent == [k |-> k, handler |-> "NULL", audit |-> <<>>, console |-> 0,
                   driver |-> "none"]
    IN  IF cur # NULL /\ security_validate_syscall(env, syscall_num, k.heap[cur]) # 0
        THEN [silent EXCEPT !.audit = << <<"SYSCALL_DENIED", k.heap[cur].pid, syscall_num>> >>]
                 @@ [ret |-> -1]
        ELSE IF syscall_num >= SYS_MAX \/ syscall_table(syscall_num) = "NULL"
        THEN silent @@ [ret |-> -38]
        ELSE Invoked(k, cur, syscall_num, Invoke(k, env, syscall_num, arg1, arg2, arg3))

\* syscall_handler: {k, ret, handler, audit, console, driver}
\*   handler : the handler that was invoked, "NULL" when none was
\*   audit   : the records passed to security_audit_log, in order
\*   console : the number of characters printed
\*   driver  : the file-system operation performed, "none" when none was
syscall_handler(k, env, syscall_num, arg1, arg2, arg3) ==
    LET cur    == k.sys.current_process
        silent == [k |-> k, handler |-> "NULL", audit |-> <<>>, console |-> 0,
                   driver |-> "none"]
    IN  IF cur # NULL /\ security_validate_syscall(env, syscall_num, k.heap[cur]) # 0
        THEN [silent EXCEPT !.audit = << <<"SYSCALL_DENIED", k.heap[cur].pid, syscall_num>> >>]
                 @@ [ret |-> -1]
        ELSE IF syscall_num >= SYS_MAX \/ syscall_table(syscall_num) = "NULL"
        THEN silent @@ [ret |-> -38]
        ELSE Invoked(k, cur, syscall_num, Invoke(k, env, syscall_num, arg1, arg2, arg3))

(***************************************************************************)
(* kernel/fs/vfs.c, the read and write entry points.  file is <<>> for a   *)
(* NULL pointer and <<f>> for a pointer to the open file f, buffer is NULL *)
(* or not, has_op says whether the file system provides the operation and  *)
(* bytes is what the operation answers.  The result is {ret, driver}; only *)
(* the operation of the file system moves the offset or touches the file.  *)
(***************************************************************************)

vfs_read(file, buffer, count, has_op, bytes) ==
    IF file = <<>> \/ buffer = NULL \/ count = 0 THEN [ret |-> -1, driver |-> "none"]
    ELSE IF ~HasBit(file[1].flags, READ_BIT) THEN [ret |-> -1, driver |-> "none"]
    ELSE IF has_op THEN [ret |-> bytes, driver |-> "read"]
    ELSE [ret |-> -1, driver |-> "none"]

vfs_write(file, buffer, count, has_op, bytes) ==
    IF file = <<>> \/ buffer = NULL \/ count = 0 THEN [ret |-> -1, driver |-> "none"]
    ELSE IF ~HasBit(file[1].flags, WRITE_BIT) THEN [ret |-> -1, driver |-> "none"]
    ELSE IF has_op THEN [ret |-> bytes, driver |-> "write"]
    ELSE [ret |-> -1, driver |-> "none"]

(***************************************************************************)
(* vfs.c.  A path is the sequence of its characters, as strlen, strncmp    *)
(* and strstr see it; the paths explored are shorter than the 255          *)
(* characters vfs_mount keeps.  The name of a file system and of a device  *)
(* is one value: vfs.c only compares names as wholes (strcmp).  A C        *)
(* pointer that may be NULL is <<>> for NULL and <<x>> for a pointer to x; *)
(* a mount point is known by its place in the list, 1 for the head, 0 for  *)
(* NULL.  A super block belongs to the driver: a pointer to one is         *)
(* <<[addr, ops, device]>>, the address get_super returned and what the    *)
(* driver keeps there, and two such pointers are equal when the addresses  *)
(* are.  current_process is declared in no header vfs.c includes: the      *)
(* process it points to comes with each call.  A driver is the struct      *)
(* filesystem_ops registered: its name (a pointer), and whether its mount, *)
(* unmount, open, mkdir and rmdir pointers are set (get_super is).  What   *)
(* the driver functions return comes with each call, in env.  Each         *)
(* operation gives [v, m, ret, trace]: the statics of vfs.c, the state of  *)
(* memory.c, the value returned and the calls made, in order               *)
(* ("security_audit_log DENIED" is the audit of a refusal).  A PANIC of    *)
(* kmalloc halts the kernel inside the call: the trace ends there.         *)
(***************************************************************************)

MAX_FILESYSTEMS == 32
WRITE_OP        == 2     \* check_path_security: operation & 0x02
SIZEOF_MOUNT    == 280   \* sizeof(struct mount_point)
SIZEOF_INODE    == 192   \* sizeof(struct inode)
SIZEOF_FILE     == 48    \* sizeof(struct file)

\* the string literals of vfs.c
CLASSIFIED_DIR == <<"/", "c", "l", "a", "s", "s", "i", "f", "i", "e", "d", "/">>
SECRET_DIR     == <<"/", "s", "e", "c", "r", "e", "t", "/">>
PENTAGON_DIR   == <<"/", "p", "e", "n", "t", "a", "g", "o", "n", "/">>
SYSTEM_DIR     == <<"/", "s", "y", "s", "t", "e", "m", "/">>

strlen(s) == Len(s)

\* strstr(haystack, needle) != NULL
strstr(haystack, needle) ==
    \E i \in 1 .. Len(haystack) - Len(needle) + 1 :
        SubSeq(haystack, i, i + Len(needle) - 1) = needle

\* strncmp(path, prefix, strlen(prefix)) == 0: the first strlen(prefix)
\* characters agree (a path that ends before differs at its end)
strncmp_prefix(path, prefix) ==
    /\ Len(prefix) <= Len(path)
    /\ \A i \in 1 .. Len(prefix) : path[i] = prefix[i]

\* strrchr(path, '/') != NULL
strrchr_slash(path) == \E i \in 1 .. Len(path) : path[i] = "/"

\* kmalloc handed out no memory: it halted the kernel in a PANIC, or it
\* returned NULL (the heap pointer was 0)
NoMemory(m, a) == a.m.panic # "" \/ NullPtr(m)

VfsStatic ==
    [registered_filesystems |-> <<>>,   \* the slots in use, in slot order
     mount_points           |-> <<>>,   \* the list, head first
     root_sb                |-> <<>>,
     next_inode_num         |-> 1]

\* vfs_init: the registry and the mount list are cleared (the inode cache has
\* no reader); root_sb and next_inode_num are not touched
vfs_init(v) ==
    [v EXCEPT !.registered_filesystems = <<>>, !.mount_points = <<>>]

\* vfs_register_filesystem: {v, ret}
vfs_register_filesystem(v, fs_ops) ==
    IF fs_ops = <<>> \/ fs_ops[1].name = <<>>      \* !fs_ops || !fs_ops->name
    THEN [v |-> v, ret |-> -1]
    ELSE IF Len(v.registered_filesystems) < MAX_FILESYSTEMS
    THEN [v |-> [v EXCEPT !.registered_filesystems = Append(@, fs_ops[1])], ret |-> 0]
    ELSE [v |-> v, ret |-> -1]

\* check_path_security: 0 when allowed, -1 when denied
check_path_security(cur, path, operation) ==
    IF cur = <<>> THEN 0
    ELSE IF /\ cur[1].security_level < 2
            /\ \/ strstr(path, CLASSIFIED_DIR)
               \/ strstr(path, SECRET_DIR)
               \/ strstr(path, PENTAGON_DIR)
    THEN -1
    ELSE IF /\ HasBit(operation, WRITE_OP)
            /\ strstr(path, SYSTEM_DIR) /\ cur[1].uid # 0
    THEN -1
    ELSE 0

\* find_mount_point, the while loop from the mount at place i on: the place
\* of the best match so far, 0 for none
RECURSIVE BestMatch(_, _, _, _, _)
BestMatch(v, path, i, best_match, best_match_len) ==
    IF i > Len(v.mount_points) THEN best_match
    ELSE LET mp_len == strlen(v.mount_points[i].path)
         IN  IF strncmp_prefix(path, v.mount_points[i].path) /\ mp_len > best_match_len
             THEN BestMatch(v, path, i + 1, i, mp_len)
             ELSE BestMatch(v, path, i + 1, best_match, best_match_len)

\* find_mount_point: the place of the mount returned, 0 for NULL
find_mount_point(v, path) ==
    LET best_match == BestMatch(v, path, 1, 0, 0)
    IN  IF best_match # 0 THEN best_match
        ELSE IF v.root_sb # <<>> /\ v.mount_points # <<>> THEN 1
        ELSE 0

\* resolve_path: {m, ret, parent, trace}; the parent is a new inode unless the
\* path has no '/'
resolve_path(m, path) ==
    IF ~strrchr_slash(path)
    THEN [m |-> m, ret |-> 0, parent |-> <<>>, trace |-> <<>>]
    ELSE LET a == kmalloc(m, SIZEOF_INODE)
         IN  IF NoMemory(m, a)
             THEN [m |-> a.m, ret |-> -1, parent |-> <<>>, trace |-> <<"kmalloc">>]
             ELSE [m |-> a.m, ret |-> 0,
                   parent |-> <<[inode_num |-> 1, uid |-> 0, gid |-> 0]>>,
                   trace |-> <<"kmalloc">>]

\* the first registered driver of that name, <<>> for none
FindFilesystem(v, fstype) ==
    LET found == {i \in 1 .. Len(v.registered_filesystems) :
                      v.registered_filesystems[i].name = <<fstype>>}
    IN  IF found = {} THEN <<>>
        ELSE <<v.registered_filesystems[CHOOSE i \in found : \A j \in found : i <= j]>>

\* what get_super returned: NULL for address 0, else the pointer to the super
\* block at that address, which the driver filled for the device
SuperBlock(addr, fs_ops, device) ==
    IF addr = 0 THEN <<>>
    ELSE <<[addr |-> addr, ops |-> fs_ops[1], device |-> device[1]]>>

\* vfs_mount with the driver asked to mount before the policy is consulted
vfs_mount_checks_late(v, m, cur, device, mountpoint, fstype, flags, env) ==
    IF device = <<>> \/ mountpoint = <<>> \/ fstype = <<>>
    THEN [v |-> v, m |-> m, ret |-> -1, trace |-> <<>>]
    ELSE LET fs_ops == FindFilesystem(v, fstype[1])
             called == IF fs_ops # <<>> /\ fs_ops[1].full THEN <<"ops.mount">> ELSE <<>>
         IN  IF fs_ops = <<>> THEN [v |-> v, m |-> m, ret |-> -1, trace |-> <<>>]
             ELSE IF fs_ops[1].full /\ env.mount # 0
             THEN [v |-> v, m |-> m, ret |-> -1, trace |-> called]
             ELSE IF check_path_security(cur, mountpoint[1], WRITE_OP) # 0
             THEN [v |-> v, m |-> m, ret |-> -1,
                   trace |-> called \o <<"check_path_security", "security_audit_log DENIED">>]
             ELSE LET a  == kmalloc(m, SIZEOF_MOUNT)
                      sb == SuperBlock(env.get_super, fs_ops, device)
                      mp == [path |-> mountpoint[1], sb |-> sb, flags |-> flags,
                             security_level |->
                                 IF cur # <<>> THEN cur[1].security_level ELSE 0]
                      tr == called \o <<"check_path_security", "kmalloc">>
                  IN  IF NoMemory(m, a)
                      THEN [v |-> v, m |-> a.m, ret |-> -1, trace |-> tr]
                      ELSE IF sb = <<>>
                      THEN [v |-> v, m |-> kfree(a.m, a.ret), ret |-> -1,
                            trace |-> tr \o <<"ops.get_super", "kfree">>]
                      ELSE [v |-> [v EXCEPT !.mount_points = <<mp>> \o @,
                                            !.root_sb = IF mountpoint[1] = <<"/">>
                                                        THEN sb ELSE @],
                            m |-> a.m, ret |-> 0,
                            trace |-> tr \o <<"ops.get_super", "security_audit_log">>]

\* vfs_mount
vfs_mount(v, m, cur, device, mountpoint, fstype, flags, env) ==
    IF device = <<>> \/ mountpoint = <<>> \/ fstype = <<>>
    THEN [v |-> v, m |-> m, ret |-> -1, trace |-> <<>>]
    ELSE LET fs_ops == FindFilesystem(v, fstype[1])
         IN  IF fs_ops = <<>> THEN [v |-> v, m |-> m, ret |-> -1, trace |-> <<>>]
             ELSE IF check_path_security(cur, mountpoint[1], WRITE_OP) # 0
             THEN [v |-> v, m |-> m, ret |-> -1,
                   trace |-> <<"check_path_security", "security_audit_log DENIED">>]
             ELSE LET a  == kmalloc(m, SIZEOF_MOUNT)
                      sb == SuperBlock(env.get_super, fs_ops, device)
                      mp == [path |-> mountpoint[1], sb |-> sb, flags |-> flags,
                             security_level |->
                                 IF cur # <<>> THEN cur[1].security_level ELSE 0]
                      t1 == <<"check_path_security", "kmalloc">>
                      t2 == t1 \o (IF fs_ops[1].full THEN <<"ops.mount">> ELSE <<>>)
                  IN  IF NoMemory(m, a)
                      THEN [v |-> v, m |-> a.m, ret |-> -1, trace |-> t1]
                      ELSE IF fs_ops[1].full /\ env.mount # 0
                      THEN [v |-> v, m |-> kfree(a.m, a.ret), ret |-> -1,
                            trace |-> t2 \o <<"kfree">>]
                      ELSE IF sb = <<>>
                      THEN [v |-> v, m |-> kfree(a.m, a.ret), ret |-> -1,
                            trace |-> t2 \o <<"ops.get_super", "kfree">>]
                      ELSE [v |-> [v EXCEPT !.mount_points = <<mp>> \o @,
                                            !.root_sb = IF mountpoint[1] = <<"/">>
                                                        THEN sb ELSE @],
                            m |-> a.m, ret |-> 0,
                            trace |-> t2 \o <<"ops.get_super", "security_audit_log">>]

\* the search of vfs_unmount stopping at the last mount of that path
FindMounted_last(v, mountpoint) ==
    LET found == {i \in 1 .. Len(v.mount_points) : v.mount_points[i].path = mountpoint}
    IN  IF found = {} THEN 0 ELSE CHOOSE i \in found : \A j \in found : i >= j

\* vfs_unmount, "Find mount point": the first mount of the list whose path
\* is the argument (strcmp), 0 for none
FindMounted(v, mountpoint) ==
    LET found == {i \in 1 .. Len(v.mount_points) : v.mount_points[i].path = mountpoint}
    IN  IF found = {} THEN 0 ELSE CHOOSE i \in found : \A j \in found : i <= j

\* vfs_unmount
vfs_unmount(v, m, cur, mountpoint, env) ==
    IF mountpoint = <<>> THEN [v |-> v, m |-> m, ret |-> -1, trace |-> <<>>]
    ELSE LET i == FindMounted(v, mountpoint[1])
         IN  IF i = 0 THEN [v |-> v, m |-> m, ret |-> -1, trace |-> <<>>]
             ELSE IF check_path_security(cur, mountpoint[1], WRITE_OP) # 0
             THEN [v |-> v, m |-> m, ret |-> -1,
                   trace |-> <<"check_path_security", "security_audit_log DENIED">>]
             ELSE LET mp == v.mount_points[i]
                  IN  IF mp.sb[1].ops.full /\ env.unmount # 0
                      THEN [v |-> v, m |-> m, ret |-> -1,
                            trace |-> <<"check_path_security", "ops.unmount">>]
                      ELSE [v |-> [v EXCEPT !.mount_points =
                                                SubSeq(@, 1, i - 1)
                                                    \o SubSeq(@, i + 1, Len(@)),
                                            !.root_sb =      \* mp->sb == root_sb
                                                IF @ # <<>> /\ @[1].addr = mp.sb[1].addr
                                                THEN <<>> ELSE @],
                            m |-> kfree(m, i), ret |-> 0,
                            trace |-> <<"check_path_security">>
                                      \o (IF mp.sb[1].ops.full
                                          THEN <<"ops.unmount">> ELSE <<>>)
                                      \o <<"kfree", "security_audit_log">>]

\* vfs_open: ret is <<>> for NULL, <<file>> for the file opened
vfs_open(v, m, cur, path, flags, mode, env) ==
    IF path = <<>> THEN [v |-> v, m |-> m, ret |-> <<>>, trace |-> <<>>]
    ELSE IF check_path_security(cur, path[1], flags % 4) # 0
    THEN [v |-> v, m |-> m, ret |-> <<>>,
          trace |-> <<"check_path_security", "security_audit_log DENIED">>]
    ELSE LET mp == find_mount_point(v, path[1])
             r  == resolve_path(m, path[1])
             a  == kmalloc(r.m, SIZEOF_INODE)
             b  == kmalloc(a.m, SIZEOF_FILE)
             v1 == [v EXCEPT !.next_inode_num = @ + 1]
             inode == [inode_num |-> v.next_inode_num,
                       uid |-> IF cur # <<>> THEN cur[1].uid ELSE 0,
                       gid |-> IF cur # <<>> THEN cur[1].gid ELSE 0]
             t1 == <<"check_path_security">> \o r.trace
         IN  IF mp = 0 THEN [v |-> v, m |-> m, ret |-> <<>>,
                             trace |-> <<"check_path_security">>]
             ELSE IF r.ret # 0 THEN [v |-> v, m |-> r.m, ret |-> <<>>, trace |-> t1]
             ELSE IF NoMemory(r.m, a)
             THEN [v |-> v, m |-> a.m, ret |-> <<>>, trace |-> t1 \o <<"kmalloc">>]
             ELSE IF b.m.panic # ""
             THEN [v |-> v1, m |-> b.m, ret |-> <<>>,
                   trace |-> t1 \o <<"kmalloc", "kmalloc">>]
             ELSE IF NullPtr(a.m)
             THEN [v |-> v1, m |-> kfree(b.m, a.ret), ret |-> <<>>,
                   trace |-> t1 \o <<"kmalloc", "kmalloc", "kfree">>]
             ELSE IF v.mount_points[mp].sb[1].ops.full /\ env.open # 0
             THEN [v |-> v1, m |-> kfree(kfree(b.m, b.ret), a.ret), ret |-> <<>>,
                   trace |-> t1 \o <<"kmalloc", "kmalloc", "ops.open", "kfree", "kfree">>]
             ELSE [v |-> v1, m |-> b.m,
                   ret |-> <<[inode |-> inode, offset |-> 0, flags |-> flags,
                              mode |-> mode, ref_count |-> 1,
                              sb |-> v.mount_points[mp].sb]>>,
                   trace |-> t1 \o <<"kmalloc", "kmalloc">>
                             \o (IF v.mount_points[mp].sb[1].ops.full
                                 THEN <<"ops.open">> ELSE <<>>)
                             \o <<"security_audit_log">>]

\* vfs_mkdir and vfs_rmdir: the same steps, around ops->mkdir or ops->rmdir
DirectoryCall(v, m, cur, path, op, rc) ==
    IF path = <<>> THEN [v |-> v, m |-> m, ret |-> -1, trace |-> <<>>]
    ELSE IF check_path_security(cur, path[1], WRITE_OP) # 0
    THEN [v |-> v, m |-> m, ret |-> -1,
          trace |-> <<"check_path_security", "security_audit_log DENIED">>]
    ELSE LET mp == find_mount_point(v, path[1])
             r  == resolve_path(m, path[1])
             t1 == <<"check_path_security">> \o r.trace
         IN  IF mp = 0 THEN [v |-> v, m |-> m, ret |-> -1,
                             trace |-> <<"check_path_security">>]
             ELSE IF r.ret # 0 THEN [v |-> v, m |-> r.m, ret |-> -1, trace |-> t1]
             ELSE IF v.mount_points[mp].sb[1].ops.full
             THEN [v |-> v, m |-> r.m, ret |-> rc,
                   trace |-> t1 \o <<op>>
                             \o (IF rc = 0 THEN <<"security_audit_log">> ELSE <<>>)]
             ELSE [v |-> v, m |-> r.m, ret |-> -1, trace |-> t1]

vfs_mkdir(v, m, cur, path, mode, env) ==
    DirectoryCall(v, m, cur, path, "ops.mkdir", env.mkdir)

vfs_rmdir(v, m, cur, path, env) ==
    DirectoryCall(v, m, cur, path, "ops.rmdir", env.rmdir)

\* vfs.c before its first call
NoCall == [op |-> "", ret |-> 0, trace |-> <<>>]

VfsIdle == vfs_state = VfsStatic /\ vfs_last = NoCall /\ vfs_ops = 0

(***************************************************************************)
(* window_manager.c and security_ui.c: the window manager of the GUI.  The *)
(* manager is the caller's struct gui_security_manager; getpid(), malloc() *)
(* and mmap() are the environment, so the calling process and whether an   *)
(* allocation succeeds are inputs of a call, and so is what the user types *)
(* at the login.  window_id and active_windows are held as the int32_t     *)
(* reading of their 32 bits (0xFFFFFFFF is -1): two values are equal       *)
(* exactly when their readings are, and the int a function returns from a  *)
(* uint32_t is the reading.  x, y, width and height are held as the        *)
(* numbers they are.  The session id (two calls of rand()), the            *)
(* classification label, the pixel contents and the audit log are left     *)
(* out: no decision of the two files reads them.  A string is the sequence *)
(* of its characters, a const char * argument <<>> for NULL and <<s>> for  *)
(* a pointer to the string s.  A call gives {manager, ret, crashed};       *)
(* crashed says that the call wrote past the memory it was given and the   *)
(* process was killed inside it.                                           *)
(***************************************************************************)
MAX_WINDOW_TITLE == 64     \* sentinal_gui.h

GUI_UNCLASSIFIED == 0
GUI_CONFIDENTIAL == 1
GUI_SECRET       == 2
GUI_TOP_SECRET   == 3
GUI_PENTAGON     == 4

\* sentinal_gui.h, the colours of the classifications
GUI_COLOR_UNCLASSIFIED == 65280        \* 0x00FF00
GUI_COLOR_CONFIDENTIAL == 255          \* 0x0000FF
GUI_COLOR_SECRET       == 16776960     \* 0xFFFF00
GUI_COLOR_TOP_SECRET   == 16711680     \* 0xFF0000
GUI_COLOR_PENTAGON     == 16711935     \* 0xFF00FF

WindowSlots == 0 .. MaxWindows - 1     \* indices of manager->windows
GuiPids     == {1, 2}                  \* what getpid() answers

\* a title of MAX_WINDOW_TITLE characters, one more than a window holds
LongTitle   == [i \in 1 .. MAX_WINDOW_TITLE |-> "a"]

\* const char *title: NULL, "w" or the long title
Titles      == {<<>>, <<(<<"w">>)>>, <<LongTitle>>}

\* the title gui_show_security_status gives its window
StatusTitle ==
    <<"S", "e", "c", "u", "r", "i", "t", "y", " ", "S", "t", "a", "t", "u", "s">>
GuiClasses  == {GUI_UNCLASSIFIED, GUI_SECRET, GUI_PENTAGON}
WindowIds   == 0 .. MaxWindows         \* the window_id argument of a call

\* <<x, y, width, height>> of a window: 2 x 2 pixels, and 65536 x 16384, whose
\* size in bytes, 2^32, is 0 in uint32_t
Geometries  == {<<0, 0, 2, 2>>, <<0, 0, 65536, 16384>>}

\* what the user types at the login, <<username, password>>; <<>> when the
\* input ends before
Logins ==
    {<<>>, <<"pentagon_admin", "TopSecret2024!">>, <<"secret_user", "Secret123!">>,
     <<"conf_user", "Conf456!">>, <<"secret_user", "TopSecret2024!">>}

\* n + 1 and n - 1 in uint32_t, on the int32_t readings
Inc32(n) == IF n = 2147483647 THEN -2147483647 - 1 ELSE n + 1
Dec32(n) == IF n = -2147483647 - 1 THEN 2147483647 ELSE n - 1

\* a * b in uint32_t, as <<high, low>>, the two halves of 16 bits of the
\* product (a and b are below 2^31)
RECURSIVE Mul32(_, _)
Mul32(a, b) ==
    LET Add32(p, q) ==
            <<(p[1] + q[1] + (p[2] + q[2]) \div 65536) % 65536, (p[2] + q[2]) % 65536>>
    IN  IF b = 0 THEN <<0, 0>>
        ELSE LET half == Mul32(a, b \div 2)
             IN  IF b % 2 = 1
                 THEN Add32(Add32(half, half), <<a \div 65536, a % 65536>>)
                 ELSE Add32(half, half)

\* a struct sentinal_window after memset(window, 0, ...); framebuffer is
\* whether the pointer is not NULL
ZeroWindow ==
    [window_id |-> 0, x |-> 0, y |-> 0, width |-> 0, height |-> 0,
     classification |-> 0, title |-> <<>>, owner_pid |-> 0,
     visible |-> FALSE, active |-> FALSE, secure_input |-> FALSE,
     framebuffer |-> FALSE]

\* gui_init_window_manager: the manager is cleared, whatever it held, and
\* set up before the frame buffer of the screen is asked of mmap
gui_init_window_manager(mmap_ok) ==
    [manager |-> [user_clearance |-> GUI_PENTAGON, secure_mode |-> TRUE,
                  active_windows |-> 0,
                  windows |-> [i \in WindowSlots |-> ZeroWindow]],
     ret |-> IF mmap_ok THEN 0 ELSE -1,
     crashed |-> FALSE]

validate_security_context(manager, classification) ==
    IF manager.user_clearance < classification THEN -1 ELSE 0

\* the loop "for (i = 0; i < MAX_WINDOWS; i++) if (windows[i].window_id ==
\* window_id) break": the first slot holding the id, -1 when there is none
FindWindow(manager, window_id) ==
    LET found == {i \in WindowSlots : manager.windows[i].window_id = window_id}
    IN  IF found = {} THEN -1 ELSE CHOOSE i \in found : \A j \in found : i <= j

\* strncpy(dst, src, n - 1); dst[n - 1] = '\0': the string dst then holds
StrNCpy(src, n) == SubSeq(src, 1, IF Len(src) < n - 1 THEN Len(src) ELSE n - 1)

\* the colour gui_create_window clears a window of this classification to
BgColor(classification) ==
    CASE classification = GUI_UNCLASSIFIED -> GUI_COLOR_UNCLASSIFIED
      [] classification = GUI_CONFIDENTIAL -> GUI_COLOR_CONFIDENTIAL
      [] classification = GUI_SECRET       -> GUI_COLOR_SECRET
      [] classification = GUI_TOP_SECRET   -> GUI_COLOR_TOP_SECRET
      [] classification = GUI_PENTAGON     -> GUI_COLOR_PENTAGON

\* byte i (0 the lowest) of the 32 bits of n
Byte(n, i) == (n \div 256 ^ i) % 256

\* the character of a title whose byte is 255
CharFF == "\\xFF"

\* the string an array of char holds once every 4 bytes of it hold the pixel
\* value bg: the bytes before the first that is zero.  In each colour of a
\* classification the lowest byte is 0, or it is 255 and the next one 0
TitleOf(bg) == IF Byte(bg, 0) = 0 THEN <<>> ELSE <<CharFF>>

\* a struct sentinal_window every 4 bytes of which hold the pixel value bg
\* (security_flags, visible, active and secure_input are the 4 bytes of one
\* word, in this order)
FilledWindow(bg) ==
    [window_id |-> bg, x |-> bg, y |-> bg, width |-> bg, height |-> bg,
     classification |-> bg, title |-> TitleOf(bg), owner_pid |-> bg,
     visible |-> Byte(bg, 1) # 0, active |-> Byte(bg, 2) # 0,
     secure_input |-> Byte(bg, 3) # 0, framebuffer |-> TRUE]

\* the manager when the loop that clears the window of slot window_index to
\* bg leaves its block and runs upwards through the manager: the words of the
\* manager are overwritten one after the other, down to the word of
\* window->framebuffer the loop reads its address from, after which it writes
\* elsewhere.  The slots behind window_index stay
Overrun(manager, window_index, bg) ==
    [user_clearance |-> Byte(bg, 0),
     secure_mode    |-> Byte(bg, 0) # 0,
     active_windows |-> bg,
     windows        |-> [i \in WindowSlots |->
                            IF i <= window_index THEN FilledWindow(bg)
                            ELSE manager.windows[i]]]

\* gui_create_window.  malloc is asked for width * height * 4 bytes and the
\* loop that clears the window writes width * height pixels of 4 bytes, both
\* products taken in uint32_t: when the first wraps the loop writes past the
\* block, 4 GiB or more, and the process is killed.  What the manager holds
\* then depends on where it lies: out of the way of the loop it is as the call
\* had left it; above the block (manager_above) the loop has written over it
gui_create_window(manager, x, y, width, height, title, classification, pid, malloc_ok, manager_above) ==
    IF title = <<>> THEN [manager |-> manager, ret |-> -1, crashed |-> FALSE]
    ELSE IF validate_security_context(manager, classification) # 0
    THEN [manager |-> manager, ret |-> -1, crashed |-> FALSE]
    ELSE
    LET window_index == FindWindow(manager, 0)
    IN  IF window_index = -1 THEN [manager |-> manager, ret |-> -1, crashed |-> FALSE]
        ELSE
        LET window ==
                [window_id      |-> Inc32(manager.active_windows),
                 x              |-> x,
                 y              |-> y,
                 width          |-> width,
                 height         |-> height,
                 classification |-> classification,
                 title          |-> StrNCpy(title[1], MAX_WINDOW_TITLE),
                 owner_pid      |-> pid,
                 visible        |-> TRUE,
                 active         |-> manager.active_windows = 0,
                 secure_input   |-> classification >= GUI_SECRET,
                 framebuffer    |-> malloc_ok]
            pixels == Mul32(width, height)     \* width * height
            made   == [manager EXCEPT !.windows[window_index] = window]
        IN  IF ~malloc_ok
            THEN [manager |-> [manager EXCEPT !.windows[window_index] =
                                                  [window EXCEPT !.window_id = 0]],
                  ret |-> -1, crashed |-> FALSE]
            ELSE IF pixels[1] >= 16384                \* width * height * 4 wraps
            THEN [manager |-> IF manager_above
                              THEN Overrun(made, window_index, BgColor(classification))
                              ELSE made,
                  ret |-> -1, crashed |-> TRUE]
            ELSE [manager |-> [made EXCEPT !.active_windows = Inc32(@)],
                  ret |-> window.window_id, crashed |-> FALSE]

gui_destroy_window(manager, window_id, pid) ==
    LET i == FindWindow(manager, window_id)
    IN  IF i = -1 THEN [manager |-> manager, ret |-> -1, crashed |-> FALSE]
        ELSE IF /\ manager.windows[i].owner_pid # pid
                /\ manager.user_clearance < GUI_TOP_SECRET
        THEN [manager |-> manager, ret |-> -1, crashed |-> FALSE]
        ELSE [manager |-> [manager EXCEPT !.windows[i] = ZeroWindow,
                                          !.active_windows = Dec32(@)],
              ret |-> 0, crashed |-> FALSE]

gui_verify_access(manager, window_id, requesting_pid) ==
    LET i == FindWindow(manager, window_id)
    IN  IF i = -1 THEN -1
        ELSE IF manager.windows[i].owner_pid = requesting_pid THEN 0
        ELSE IF manager.user_clearance >= manager.windows[i].classification THEN 0
        ELSE -1

\* gui_set_security_context; window is <<>> for NULL, <<i>> for
\* &manager->windows[i]
gui_set_security_context(manager, window, classification) ==
    IF window = <<>> THEN [manager |-> manager, ret |-> -1, crashed |-> FALSE]
    ELSE [manager |-> [manager EXCEPT
                           !.windows[window[1]].classification = classification,
                           !.windows[window[1]].secure_input =
                               classification >= GUI_SECRET],
          ret |-> 0, crashed |-> FALSE]

\* gui_show_window (visible = TRUE) and gui_hide_window (visible = FALSE)
SetVisible(manager, window_id, pid, visible) ==
    LET i == FindWindow(manager, window_id)
    IN  IF i = -1 THEN [manager |-> manager, ret |-> -1, crashed |-> FALSE]
        ELSE IF gui_verify_access(manager, window_id, pid) # 0
        THEN [manager |-> manager, ret |-> -1, crashed |-> FALSE]
        ELSE [manager |-> [manager EXCEPT !.windows[i].visible = visible],
              ret |-> 0, crashed |-> FALSE]

gui_show_window(manager, window_id, pid) == SetVisible(manager, window_id, pid, TRUE)

gui_hide_window(manager, window_id, pid) == SetVisible(manager, window_id, pid, FALSE)

\* security_ui.c, authenticate_user: {manager, ret}
authenticate_user(manager, login) ==
    IF login = <<>> THEN [manager |-> manager, ret |-> -1]
    ELSE IF login = <<"pentagon_admin", "TopSecret2024!">>
    THEN [manager |-> [manager EXCEPT !.user_clearance = GUI_PENTAGON], ret |-> 0]
    ELSE IF login = <<"secret_user", "Secret123!">>
    THEN [manager |-> [manager EXCEPT !.user_clearance = GUI_SECRET], ret |-> 0]
    ELSE IF login = <<"conf_user", "Conf456!">>
    THEN [manager |-> [manager EXCEPT !.user_clearance = GUI_CONFIDENTIAL], ret |-> 0]
    ELSE [manager |-> [manager EXCEPT !.user_clearance = GUI_UNCLASSIFIED], ret |-> -1]

\* security_ui.c, gui_init_security_ui
gui_init_security_ui(manager, login) ==
    LET a == authenticate_user(manager, login)
    IN  IF a.ret # 0 THEN [manager |-> a.manager, ret |-> -1, crashed |-> FALSE]
        ELSE [manager |-> [a.manager EXCEPT !.secure_mode = TRUE],
              ret |-> 0, crashed |-> FALSE]

\* security_ui.c, gui_show_security_status: the window of the status is
\* created and looked up by the id the creation returned; what is drawn in it
\* changes its pixels only
gui_show_security_status(manager, pid, malloc_ok, manager_above) ==
    LET c == gui_create_window(manager, 50, 100, 400, 300, <<StatusTitle>>, GUI_SECRET,
                               pid, malloc_ok, manager_above)
    IN  IF c.ret < 0 THEN [manager |-> c.manager, ret |-> -1, crashed |-> c.crashed]
        ELSE IF FindWindow(c.manager, c.ret) = -1
        THEN [manager |-> c.manager, ret |-> -1, crashed |-> FALSE]
        ELSE [manager |-> c.manager, ret |-> c.ret, crashed |-> FALSE]

\* gui_shutdown_security_ui, "Clear all windows", from slot i on
RECURSIVE ClearWindows(_, _, _)
ClearWindows(manager, i, pid) ==
    IF i \notin WindowSlots THEN manager
    ELSE IF manager.windows[i].window_id # 0
    THEN ClearWindows(gui_destroy_window(manager, manager.windows[i].window_id,
                                         pid).manager,
                      i + 1, pid)
    ELSE ClearWindows(manager, i + 1, pid)

\* security_ui.c, gui_shutdown_security_ui: the windows that can be are
\* destroyed, then the manager is cleared
gui_shutdown_security_ui(manager, pid) ==
    LET cleared == ClearWindows(manager, 0, pid)
    IN  [manager |-> [cleared EXCEPT !.user_clearance = 0, !.secure_mode = FALSE,
                                     !.active_windows = 0,
                                     !.windows = [i \in WindowSlots |-> ZeroWindow]],
         ret |-> 0, crashed |-> FALSE]

\* the window manager before its first call
GuiIdle ==
    /\ gui_manager = gui_init_window_manager(TRUE).manager
    /\ gui_crashed = FALSE
    /\ gui_ops = 0

\* the scheduler.c part of the state, as the operators above take it
SchedK == [ss |-> sched_state, cp |-> current_process, enq |-> enq, m |-> mm_state]

\* process.c and syscalls.c as their static initialisers leave them, with
\* memory.c in state m
ProcStatic(m) ==
    [heap |-> <<>>,
     pm |-> [current_process |-> NULL, process_list |-> NULL, ready_queue |-> NULL,
             next_pid |-> 1, scheduler_ticks |-> 0, scheduler_lock |-> 0,
             last_schedule |-> 0],
     sys |-> [current_process |-> NULL, process_list |-> NULL, next_pid |-> 1,
              current_brk |-> INITIAL_BRK],
     file_table |-> NoFiles,
     hung |-> FALSE,
     waiting |-> NULL,
     destroying |-> NULL,
     enq |-> <<>>,
     exit_code |-> <<>>,
     m |-> m]

\* the state of the other manager, as its static initialisers leave it
ProcIdle ==
    /\ heap = ProcStatic(MmStatic).heap
    /\ pm = ProcStatic(MmStatic).pm
    /\ sys = ProcStatic(MmStatic).sys
    /\ file_table = ProcStatic(MmStatic).file_table
    /\ hung = FALSE
    /\ waiting = ProcStatic(MmStatic).waiting
    /\ destroying = ProcStatic(MmStatic).destroying
    /\ exit_code = ProcStatic(MmStatic).exit_code

\* no block of memory.c is followed yet
NoBlocks == mem_ops = 0

\* memory.c as its static initialisers leave it
MemIdle ==
    /\ mm_state = MmStatic
    /\ NoBlocks

MULTIBOOT2_MAGIC == 920085129    \* kernel_main: 0x36d76289

\* the values the boot loader may leave for multiboot_magic
MagicInputs == {MULTIBOOT2_MAGIC, 0}

\* kernel_main: "Verify multiboot", then "Initialize subsystems": mm_init and
\* scheduler_init.  A PANIC halts the kernel where it is raised, before
\* whatever follows is called
kernel_main(multiboot_magic) ==
    IF multiboot_magic # MULTIBOOT2_MAGIC
    THEN SchedStatic([MmStatic EXCEPT !.panic = "Invalid multiboot magic"])
    ELSE LET m == mm_init(MmStatic)
         IN  IF m.panic # "" THEN SchedStatic(m) ELSE scheduler_init(m)

\* the kernel as kernel_main leaves it.  With the magic of the boot loader
\* mm_init asks early_kmalloc for 131072 page descriptors, 3 MiB of the 1 MiB
\* early heap, and the kernel panics there; with any other magic it panics
\* before.  Nothing of scheduler.c has run and nothing runs after
InitBoot ==
    /\ booted = "boot"
    /\ \E multiboot_magic \in MagicInputs :
           /\ sched_state = kernel_main(multiboot_magic).ss
           /\ current_process = kernel_main(multiboot_magic).cp
           /\ enq = kernel_main(multiboot_magic).enq
           /\ mm_state = kernel_main(multiboot_magic).m
    /\ NoBlocks
    /\ ProcIdle

\* scheduler_init called by itself, with memory.c as its static initialisers
\* leave it: the runs of scheduler.c start here, the boot of kernel_main not
\* reaching it
InitSched ==
    /\ booted = "sched"
    /\ sched_state = scheduler_init(MmStatic).ss
    /\ current_process = scheduler_init(MmStatic).cp
    /\ enq = scheduler_init(MmStatic).enq
    /\ mm_state = scheduler_init(MmStatic).m
    /\ NoBlocks
    /\ ProcIdle

\* a step of scheduler.c; a kernel that has panicked takes none
SchedStep(k) ==
    /\ booted = "sched"
    /\ mm_state.panic = ""
    /\ sched_state' = k.ss
    /\ current_process' = k.cp
    /\ enq' = k.enq
    /\ mm_state' = k.m
    /\ UNCHANGED <<booted, heap, pm, sys, file_table, hung, waiting, destroying, exit_code,
                   mem_ops,
                   vfs_state, vfs_last, vfs_ops, gui_manager, gui_crashed, gui_ops>>

Schedule == SchedStep(schedule(SchedK))

CreateProcess ==
    \E lvl \in SecInputs :
        /\ sched_state.next_pid <= MaxPid
        /\ SchedStep(create_process(SchedK, lvl).k)

TerminateProcess ==
    \E pid \in 0 .. MaxPid : SchedStep(terminate_process(SchedK, pid))

NextSched == Schedule \/ CreateProcess \/ TerminateProcess

(***************************************************************************)
(* The scheduler lock.  A step of the runs below is a call of process.c or  *)
(* syscalls.c down to where it returns (for the wait loop of sys_waitpid,  *)
(* a pass of the loop); the                                                *)
(* operators here give the kernel states such a step passes through, in    *)
(* order, so that what a call writes can be set against the value          *)
(* scheduler_lock has while it writes.                                     *)
(***************************************************************************)

\* the PCB table: the heads of the process lists and of the ready queue, and
\* the state and the links of every PCB
PcbTable(k) ==
    [process_list |-> k.pm.process_list, ready_queue |-> k.pm.ready_queue,
     sys_list |-> k.sys.process_list,
     pcbs |-> [p \in DOMAIN k.heap |->
                  [state |-> k.heap[p].state, next |-> k.heap[p].next,
                   prev |-> k.heap[p].prev]]]

\* process_schedule: the test of the lock, the lock taken, the pass made, the
\* lock released
SchedulePasses(k) ==
    IF k.pm.scheduler_lock # 0 THEN <<k>>
    ELSE <<k, [k EXCEPT !.pm.scheduler_lock = 1],
           [process_schedule(k) EXCEPT !.pm.scheduler_lock = 1],
           process_schedule(k)>>

\* the calls of process.c
ProcessPasses(k, call, arg) ==
    CASE call = "process_schedule" -> SchedulePasses(k)
      [] call = "process_create" ->
            IF k.pm.scheduler_lock # 0 THEN <<k>>
            ELSE <<k, [k EXCEPT !.pm.scheduler_lock = 1],
                   [process_create(k).k EXCEPT !.pm.scheduler_lock = 1],
                   process_create(k).k>>
      [] call = "process_exit" ->
            LET cur == k.pm.current_process
            IN  IF cur = NULL THEN <<k>>
                ELSE <<k>> \o SchedulePasses([k EXCEPT !.heap[cur].state = "ZOMBIE",
                                                       !.exit_code[cur] = arg])
      [] call = "process_destroy" ->
            LET proc == FindByPid(k, arg)
                cur  == k.pm.current_process
            IN  IF proc = HANG \/ proc = NULL THEN <<k>>
                ELSE IF cur # NULL /\ k.heap[proc].uid # k.heap[cur].uid
                                   /\ k.heap[cur].uid # 0
                THEN <<k>>
                ELSE LET k0 == [k EXCEPT !.heap[proc].open_files = {}]
                         k1 == IF k0.heap[proc].state = "READY"
                               THEN pm_remove_from_ready_queue(k0, proc) ELSE k0
                         k2 == UnlinkFromProcessList(k1, proc)
                     IN  <<k, k0, k1, k2>>
                         \o (IF proc = cur
                             THEN SchedulePasses([k2 EXCEPT !.pm.current_process = NULL])
                             ELSE <<>>)

\* the calls of syscalls.c: none of them takes the lock, and sys_exit and
\* sys_waitpid call process_schedule.  sys_waitpid is followed down to where
\* it returns or has made one pass; "again" is the sys_waitpid under way, back
\* at the test of its loop for the child arg
SyscallPasses(k, call, arg) ==
    LET cur == k.sys.current_process
        Test(child) ==
            IF k.heap[child].state = "ZOMBIE" THEN <<k, waitpid_reap(k, child).k>>
            ELSE <<k>> \o SchedulePasses([k EXCEPT !.heap[cur].state = "BLOCKED"])
    IN  CASE call = "sys_kill" -> <<k, sys_kill(k, arg).k>>
          [] call = "sys_fork" -> <<k, sys_fork(k).k>>
          [] call = "sys_exit" ->
                IF cur = NULL THEN <<k>>
                ELSE LET k1 == CloseAllFiles(k, k.heap[cur].open_files)
                     IN  <<k, k1>>
                         \o SchedulePasses([k1 EXCEPT !.heap[cur].state = "ZOMBIE",
                                                      !.exit_code[cur] = arg])
          [] call = "sys_waitpid" ->
                LET child == FindByPid(k, arg)
                IN  IF cur = NULL \/ child = HANG \/ child = NULL THEN <<k>>
                    ELSE IF k.heap[child].ppid # k.heap[cur].pid THEN <<k>>
                    ELSE Test(child)
          [] call = "again" -> Test(arg)

(***************************************************************************)
(* The process.c / syscalls.c run                                          *)
(***************************************************************************)

ProcK == [heap |-> heap, pm |-> pm, sys |-> sys, file_table |-> file_table,
          hung |-> hung, waiting |-> waiting, destroying |-> destroying,
          enq |-> enq,
          exit_code |-> exit_code, m |-> mm_state]

\* the state of scheduler.c, as its static initialisers leave it
SchedIdle ==
    /\ sched_state = SchedStatic(MmStatic).ss
    /\ current_process = SchedStatic(MmStatic).cp

\* values the cpu_time of init may hold: process_init leaves it as kmalloc
\* returned it
UninitCpuTime == {0, 1}

\* the state the process.c / syscalls.c run starts in: k
BootedAs(mode, k) ==
    /\ booted = mode
    /\ heap = k.heap
    /\ pm = k.pm
    /\ sys = k.sys
    /\ file_table = k.file_table
    /\ hung = k.hung
    /\ waiting = k.waiting
    /\ destroying = k.destroying
    /\ enq = k.enq
    /\ exit_code = k.exit_code
    /\ mm_state = k.m
    /\ NoBlocks
    /\ SchedIdle

\* process_init and syscall_init (neither has a caller in the sources), called
\* with memory.c and the file table as their static initialisers leave them
Booted(cpu) ==
    LET k == process_init(ProcStatic(MmStatic), cpu)
    IN  [k EXCEPT !.file_table = syscall_init(@)]

InitProc == \E cpu \in UninitCpuTime : BootedAs("proc", Booted(cpu))

\* the run of the calls that leave the process lists alone starts with init
\* and one process it created
InitFile == \E cpu \in UninitCpuTime : BootedAs("file", process_create(Booted(cpu)).k)

\* a step of process.c or syscalls.c that an interrupt or the sys_waitpid
\* under way can make; a kernel that hangs or has panicked takes none
ProcRun(k) ==
    /\ booted # "sched"
    /\ ~hung
    /\ mm_state.panic = ""
    /\ k.pm.scheduler_ticks <= MaxTicks
    /\ heap' = k.heap
    /\ pm' = k.pm
    /\ sys' = k.sys
    /\ file_table' = k.file_table
    /\ hung' = k.hung
    /\ waiting' = k.waiting
    /\ destroying' = k.destroying
    /\ enq' = k.enq
    /\ exit_code' = k.exit_code
    /\ mm_state' = k.m
    /\ UNCHANGED <<booted, sched_state, current_process,
                   mem_ops,
                   vfs_state, vfs_last, vfs_ops, gui_manager, gui_crashed, gui_ops>>

\* a call of process.c or syscalls.c: none is made while sys_waitpid is in its
\* loop or a process_destroy has not returned
ProcStep(k) == waiting = NULL /\ destroying = NULL /\ ProcRun(k)

\* a step of the run of the calls that leave the process lists alone (the
\* file calls, getpid, execve, brk, mmap and the numbers without a handler)
FileStep(k) ==
    /\ booted = "file"
    /\ \A fd \in Fds : k.file_table[fd].offset <= MaxOffset
    /\ ProcStep(k)

\* allow-lists security_validate_syscall may implement: none, one that asks
\* SECRET of open and kill, one that refuses every call
Policies ==
    { <<{}, 0>>, <<{SYS_OPEN, SYS_KILL}, SEC_SECRET>>, <<0 .. SYS_MAX, SEC_PENTAGON + 1>> }

\* the environment of a call that reaches no file system, under allow-list p
ProcEnv(p) == Env(p[1], p[2], NULL, NULL, -1, 0)

\* an environment that restricts nothing.  syscall_handler consults the
\* allow-list for a known caller only and syscalls.c never learns its caller,
\* so the allow-list is no input of the runs below; the properties range over
\* Policies.
NoEnv == ProcEnv(<<{}, 0>>)

\* what fs_read_inode / fs_write_inode may answer to a request of count bytes:
\* an I/O error or the bytes moved
IoResults(count) == {-5} \cup (0 .. count)

\* what fs_get_inode, fs_get_inode after a create, and fs_create_file may
\* answer to one open: the file is there, it is created, it cannot be
\* created, it is created and still not found
Lookups == { <<1, 1, 0>>, <<NULL, 1, 0>>, <<NULL, NULL, -1>>, <<NULL, NULL, 0>> }

ProcessCreate ==
    /\ booted = "proc"
    /\ Len(heap) < MaxPcb
    /\ ProcStep(process_create(ProcK).k)

ProcessSchedule == ProcStep(process_schedule(ProcK))

\* process_destroy: the whole call, or, when an interrupt is taken before its
\* kfree(proc), the call down to there
ProcessDestroy ==
    /\ booted = "proc"
    /\ \E pid \in 0 .. MaxPcb :
           \/ ProcStep(process_destroy(ProcK, pid).k)
           \/ /\ process_destroy_unlink(ProcK, pid).k.destroying # NULL
              /\ ProcStep(process_destroy_unlink(ProcK, pid).k)

\* the process_destroy an interrupt came into goes on: kfree(proc); return 0
ProcessDestroyFree ==
    /\ booted = "proc"
    /\ waiting = NULL
    /\ destroying # NULL
    /\ ProcRun(process_destroy_free(ProcK))

ProcessExit ==
    /\ booted = "proc"
    /\ \E status \in ExitCodes : ProcStep(process_exit(ProcK, status))

\* the timer interrupt comes between two calls, or between two passes of the
\* wait loop of sys_waitpid
TimerInterrupt ==
    /\ booted = "proc"
    /\ ProcRun(scheduler_timer_interrupt(ProcK))

SysExit ==
    /\ booted = "proc"
    /\ \E status \in ExitCodes :
           ProcStep(syscall_handler(ProcK, NoEnv, SYS_EXIT, status, 0, 0).k)

SysFork ==
    /\ booted = "proc"
    /\ Len(heap) < MaxPcb
    /\ ProcStep(syscall_handler(ProcK, NoEnv, SYS_FORK, 0, 0, 0).k)

\* sys_waitpid: the call down to its return or to the end of the first pass of
\* its loop, and from there one more test of the loop
SysWaitpid ==
    /\ booted = "proc"
    /\ destroying = NULL
    /\ \E pid \in 0 .. MaxPcb :
           ProcRun(IF waiting = NULL
                   THEN syscall_handler(ProcK, NoEnv, SYS_WAITPID, pid, 0, 0).k
                   ELSE waitpid_test(ProcK, waiting).k)

SysKill ==
    /\ booted = "proc"
    /\ \E pid \in 0 .. MaxPcb :
           ProcStep(syscall_handler(ProcK, NoEnv, SYS_KILL, pid, 0, 0).k)

SysGetpid ==
    /\ booted = "file"
    /\ FileStep(syscall_handler(ProcK, NoEnv, SYS_GETPID, 0, 0, 0).k)

SysExecve ==
    /\ booted = "file"
    /\ \E filename \in {NULL, 1} :
           FileStep(syscall_handler(ProcK, NoEnv, SYS_EXECVE, filename, 0, 0).k)

\* lengths asked of sys_brk and sys_mmap: nothing, one byte, more than the
\* early heap holds
Lengths == {0, 1, EARLY_HEAP_SIZE + 1}

\* a step of sys_brk or sys_mmap: the pages the two have taken from the early
\* heap stay within MaxPages, unless the call ended in a panic
PageStep(k) ==
    /\ \/ k.m.panic # ""
       \/ k.m.early_heap_offset <= process_create(Booted(0)).k.m.early_heap_offset
                                      + MaxPages * PAGE_SIZE
    /\ FileStep(k)

SysBrk ==
    /\ booted = "file"
    /\ \E length \in Lengths :
           PageStep(syscall_handler(ProcK, NoEnv, SYS_BRK,
                                    IF length = 0 THEN 0 ELSE INITIAL_BRK + length, 0, 0).k)

SysMmap ==
    /\ booted = "file"
    /\ \E addr \in {0, MMAP_BASE + 1}, length \in Lengths :
           PageStep(syscall_handler(ProcK, NoEnv, SYS_MMAP, addr, length, 0).k)

SysUnknown ==
    /\ booted = "file"
    /\ \E n \in {SYS_CHDIR, SYS_MAX, SYS_MAX + 1} :
           FileStep(syscall_handler(ProcK, NoEnv, n, 0, 0, 0).k)

SysOpen ==
    /\ booted = "file"
    /\ \E filename \in {NULL, 1}, flags \in FlagInputs, l \in Lookups :
           FileStep(syscall_handler(ProcK, Env({}, 0, l[1], l[2], l[3], 0),
                                    SYS_OPEN, filename, flags, 0).k)

SysRead ==
    /\ booted = "file"
    /\ \E fd \in 0 .. MaxFiles, buf \in {NULL, 1}, count \in 0 .. MaxCount :
           \E bytes \in IoResults(count) :
               FileStep(syscall_handler(ProcK, Env({}, 0, NULL, NULL, -1, bytes),
                                        SYS_READ, fd, buf, count).k)

SysWrite ==
    /\ booted = "file"
    /\ \E fd \in 0 .. MaxFiles, buf \in {NULL, 1}, count \in 0 .. MaxCount :
           \E bytes \in IoResults(count) :
               FileStep(syscall_handler(ProcK, Env({}, 0, NULL, NULL, -1, bytes),
                                        SYS_WRITE, fd, buf, count).k)

SysClose ==
    /\ booted = "file"
    /\ \E fd \in 0 .. MaxFiles :
           FileStep(syscall_handler(ProcK, NoEnv, SYS_CLOSE, fd, 0, 0).k)

NextProc ==
    \/ ProcessCreate \/ ProcessSchedule \/ ProcessDestroy \/ ProcessDestroyFree
    \/ ProcessExit
    \/ TimerInterrupt
    \/ SysExit \/ SysFork \/ SysWaitpid \/ SysKill \/ SysUnknown
    \/ SysGetpid \/ SysExecve \/ SysBrk \/ SysMmap
    \/ SysOpen \/ SysRead \/ SysWrite \/ SysClose

\* the kernel after kernel_main, and the states the runs of the two process
\* managers start in: after scheduler_init, after process_init and
\* syscall_init, and after a first process_create
Init == (InitBoot \/ InitSched \/ InitProc \/ InitFile) /\ VfsIdle /\ GuiIdle
Next == NextSched \/ NextProc
Spec == Init /\ [][Next]_vars

(***************************************************************************)
(* The scheduler.c run under a timer that keeps calling schedule().        *)
(* Processes are created and terminated until MaxPid PIDs have been handed *)
(* out; from then on the only calls are scheduling decisions, and a        *)
(* decision that would change something is not put off for ever.           *)
(***************************************************************************)

\* the PIDs of the run have been handed out: nothing is created or
\* terminated any more
Settled == sched_state.next_pid > MaxPid

TerminateWhileUnsettled == ~Settled /\ TerminateProcess

NextRoundRobin == Schedule \/ CreateProcess \/ TerminateWhileUnsettled

InitRoundRobin == InitSched /\ VfsIdle /\ GuiIdle

SpecRoundRobin == InitRoundRobin /\ [][NextRoundRobin]_vars /\ WF_vars(Schedule)

(***************************************************************************)
(* The memory.c runs: kmalloc, kmalloc_aligned, kfree and mm_init, called  *)
(* on memory.c as its static initialisers leave it.                        *)
(***************************************************************************)

\* sizes passed to kmalloc: small ones, half the early heap, one byte more
\* than the early heap, and one byte more than the 256 MiB heap window
SizeInputs ==
    {1, 4096, EARLY_HEAP_SIZE \div 2, EARLY_HEAP_SIZE + 1, KERNEL_HEAP_SIZE + 1}

AlignInputs == {16, 4096}

\* the state of the process managers while memory.c is exercised
KernelIdle == SchedIdle /\ ProcIdle

InitHeap ==
    /\ booted = "heap"
    /\ mm_state = MmStatic
    /\ mem_ops = 0
    /\ KernelIdle /\ VfsIdle /\ GuiIdle /\ enq = <<>>

\* a step of memory.c; a kernel that panicked or hangs takes none
MemStep(m) ==
    /\ mm_state.panic = "" /\ ~mm_state.hung
    /\ mem_ops < MaxMemOps
    /\ mm_state' = m
    /\ mem_ops' = mem_ops + 1
    /\ UNCHANGED <<booted, sched_state, current_process, heap, pm, sys, file_table,
                   hung, waiting, destroying, enq, exit_code, vfs_state, vfs_last, vfs_ops,
                   gui_manager, gui_crashed, gui_ops>>

MmInit ==
    /\ booted = "heap"
    /\ MemStep(mm_init(mm_state))

Kmalloc ==
    /\ booted = "heap"
    /\ \E size \in SizeInputs : MemStep(kmalloc(mm_state, size).m)

KmallocAligned ==
    /\ booted = "heap"
    /\ \E size \in SizeInputs, alignment \in AlignInputs :
           MemStep(kmalloc_aligned(mm_state, size, alignment).m)

Kfree ==
    /\ booted = "heap"
    /\ \E ptr \in {0, 8} : MemStep(kfree(mm_state, ptr))

NextMem == MmInit \/ Kmalloc \/ KmallocAligned \/ Kfree

SpecMem == InitHeap /\ [][NextMem]_vars

(***************************************************************************)
(* The vfs.c runs: drivers are registered, file systems mounted and        *)
(* unmounted, files opened and directories made and removed, each call on  *)
(* behalf of no process or of a process of some clearance and uid.         *)
(***************************************************************************)

Devices     == {"d0"}
FsTypes     == {"sentinalfs", "tmpfs"}

\* mount points: "", "/", "/sys" and "/secret/a"
MountInputs ==
    {<<>>, <<"/">>, <<"/", "s", "y", "s">>,
     <<"/", "s", "e", "c", "r", "e", "t", "/", "a">>}

\* paths: "/a", "a", "/secret/a/b", "/system/a" and "/a/system/b"
PathInputs  ==
    {<<"/", "a">>, <<"a">>,
     <<"/", "s", "e", "c", "r", "e", "t", "/", "a", "/", "b">>,
     <<"/", "s", "y", "s", "t", "e", "m", "/", "a">>,
     <<"/", "a", "/", "s", "y", "s", "t", "e", "m", "/", "b">>}
OpenFlags   == {1, 2}
ReturnCodes == {0, -1}

\* current_process: NULL, or a process below SECRET that is not root
Callers == {<<>>, <<[security_level |-> SEC_SECRET - 1, uid |-> 1, gid |-> 1]>>}

\* the struct filesystem_ops a run registers
FsOps ==
    {<<>>, <<[name |-> <<>>, full |-> FALSE]>>,
     <<[name |-> <<"sentinalfs">>, full |-> TRUE]>>,
     <<[name |-> <<"tmpfs">>, full |-> FALSE]>>}

\* a C string argument: NULL or a pointer to one of the strings
Ptr(S) == {<<>>} \cup {<<x>> : x \in S}

\* the arguments of vfs_mount: none NULL, or one of them
MountArgs ==
    {a \in Ptr(Devices) \X Ptr(MountInputs) \X Ptr(FsTypes) :
         Cardinality({i \in 1 .. 3 : a[i] = <<>>}) <= 1}

\* the addresses of the super blocks vfs.c holds a pointer to
SbAddrs(v) ==
    {v.mount_points[i].sb[1].addr : i \in 1 .. Len(v.mount_points)}
        \cup {v.root_sb[i].addr : i \in 1 .. Len(v.root_sb)}

\* the addresses get_super may return for a device: 0 (NULL), the address of
\* a super block the driver of that name gave for the device before, or that
\* of a new super block
SuperAddrs(v, device, fstype) ==
    {0, CHOOSE n \in 1 .. Cardinality(SbAddrs(v)) + 1 : n \notin SbAddrs(v)}
        \cup {v.mount_points[i].sb[1].addr :
                  i \in {j \in 1 .. Len(v.mount_points) :
                             /\ <<v.mount_points[j].sb[1].device>> = device
                             /\ v.mount_points[j].sb[1].ops.name = fstype}}

\* what the driver answers to mount and get_super
MountEnvs(v, device, fstype) ==
    {[mount |-> 0, get_super |-> addr] : addr \in SuperAddrs(v, device, fstype)}
        \cup {[mount |-> -1, get_super |-> 0]}

InitVfs ==
    /\ booted = "vfs"
    /\ VfsIdle
    /\ MemIdle /\ GuiIdle
    /\ KernelIdle /\ enq = <<>>

\* a call of vfs.c; a kernel that panicked takes none
VfsStep(r, op) ==
    /\ mm_state.panic = ""
    /\ vfs_ops < MaxVfsOps
    /\ vfs_state' = r.v
    /\ mm_state' = r.m
    /\ vfs_last' = [op |-> op, ret |-> r.ret, trace |-> r.trace]
    /\ vfs_ops' = vfs_ops + 1
    /\ UNCHANGED <<booted, sched_state, current_process, heap, pm, sys, file_table,
                   hung, waiting, destroying, enq, exit_code, mem_ops,
                   gui_manager, gui_crashed, gui_ops>>

VfsInit ==
    /\ booted = "vfs"
    /\ VfsStep([v |-> vfs_init(vfs_state), m |-> mm_state, ret |-> 0, trace |-> <<>>],
               "vfs_init")

VfsRegisterFilesystem ==
    /\ booted = "vfs"
    /\ \E fs_ops \in FsOps :
           LET r == vfs_register_filesystem(vfs_state, fs_ops)
           IN  VfsStep([v |-> r.v, m |-> mm_state, ret |-> r.ret, trace |-> <<>>],
                       "vfs_register_filesystem")

VfsMount ==
    /\ booted = "vfs"
    /\ \E cur \in Callers, a \in MountArgs :
           \E env \in MountEnvs(vfs_state, a[1], a[3]) :
               VfsStep(vfs_mount(vfs_state, mm_state, cur, a[1], a[2], a[3], 0, env),
                       "vfs_mount")

VfsUnmount ==
    /\ booted = "vfs"
    /\ \E cur \in Callers, mountpoint \in Ptr(MountInputs), rc \in ReturnCodes :
           VfsStep(vfs_unmount(vfs_state, mm_state, cur, mountpoint, [unmount |-> rc]),
                   "vfs_unmount")

VfsOpen ==
    /\ booted = "vfs"
    /\ \E cur \in Callers, path \in Ptr(PathInputs), flags \in OpenFlags,
          rc \in ReturnCodes :
           VfsStep(vfs_open(vfs_state, mm_state, cur, path, flags, 0, [open |-> rc]),
                   "vfs_open")

VfsMkdir ==
    /\ booted = "vfs"
    /\ \E cur \in Callers, path \in Ptr(PathInputs), rc \in ReturnCodes :
           VfsStep(vfs_mkdir(vfs_state, mm_state, cur, path, 0, [mkdir |-> rc]),
                   "vfs_mkdir")

VfsRmdir ==
    /\ booted = "vfs"
    /\ \E cur \in Callers, path \in Ptr(PathInputs), rc \in ReturnCodes :
           VfsStep(vfs_rmdir(vfs_state, mm_state, cur, path, [rmdir |-> rc]),
                   "vfs_rmdir")

NextVfs ==
    \/ VfsInit \/ VfsRegisterFilesystem \/ VfsMount \/ VfsUnmount
    \/ VfsOpen \/ VfsMkdir \/ VfsRmdir

SpecVfs == InitVfs /\ [][NextVfs]_vars

(***************************************************************************)
(* The GUI run: after gui_init_window_manager, the calls of                *)
(* window_manager.c and the login, the status window and the shutdown of   *)
(* security_ui.c, by one of two processes each.  A process that was killed *)
(* makes no call.                                                          *)
(***************************************************************************)

InitGui ==
    /\ booted = "gui"
    /\ GuiIdle
    /\ MemIdle /\ VfsIdle
    /\ KernelIdle /\ enq = <<>>

\* a call of the GUI
GuiStep(r) ==
    /\ ~gui_crashed
    /\ gui_ops < MaxGuiOps
    /\ gui_manager' = r.manager
    /\ gui_crashed' = r.crashed
    /\ gui_ops' = gui_ops + 1
    /\ UNCHANGED <<booted, sched_state, current_process, heap, pm, sys, file_table,
                   hung, waiting, destroying, enq, exit_code, mm_state, mem_ops,
                   vfs_state, vfs_last, vfs_ops>>

GuiInitWindowManager ==
    /\ booted = "gui"
    /\ \E mmap_ok \in BOOLEAN : GuiStep(gui_init_window_manager(mmap_ok))

GuiCreateWindow ==
    /\ booted = "gui"
    /\ \E g \in Geometries, title \in Titles, classification \in GuiClasses,
          pid \in GuiPids, malloc_ok \in BOOLEAN, manager_above \in BOOLEAN :
           GuiStep(gui_create_window(gui_manager, g[1], g[2], g[3], g[4], title,
                                     classification, pid, malloc_ok, manager_above))

GuiDestroyWindow ==
    /\ booted = "gui"
    /\ \E window_id \in WindowIds, pid \in GuiPids :
           GuiStep(gui_destroy_window(gui_manager, window_id, pid))

GuiShowWindow ==
    /\ booted = "gui"
    /\ \E window_id \in WindowIds, pid \in GuiPids :
           GuiStep(gui_show_window(gui_manager, window_id, pid))

GuiHideWindow ==
    /\ booted = "gui"
    /\ \E window_id \in WindowIds, pid \in GuiPids :
           GuiStep(gui_hide_window(gui_manager, window_id, pid))

GuiSetSecurityContext ==
    /\ booted = "gui"
    /\ \E window \in {<<>>} \cup {<<i>> : i \in WindowSlots},
          classification \in GuiClasses :
           GuiStep(gui_set_security_context(gui_manager, window, classification))

GuiShowSecurityStatus ==
    /\ booted = "gui"
    /\ \E pid \in GuiPids, malloc_ok \in BOOLEAN, manager_above \in BOOLEAN :
           GuiStep(gui_show_security_status(gui_manager, pid, malloc_ok, manager_above))

GuiInitSecurityUi ==
    /\ booted = "gui"
    /\ \E login \in Logins : GuiStep(gui_init_security_ui(gui_manager, login))

GuiShutdownSecurityUi ==
    /\ booted = "gui"
    /\ \E pid \in GuiPids : GuiStep(gui_shutdown_security_ui(gui_manager, pid))

NextGui ==
    \/ GuiInitWindowManager \/ GuiCreateWindow \/ GuiDestroyWindow
    \/ GuiShowWindow \/ GuiHideWindow \/ GuiSetSecurityContext
    \/ GuiInitSecurityUi \/ GuiShowSecurityStatus \/ GuiShutdownSecurityUi

SpecGui == InitGui /\ [][NextGui]_vars

(***************************************************************************)
(* Properties.  A property of an operation is stated over every reachable  *)
(* state as "applying the operation here gives ...": the actions above     *)
(* apply the same operators.                                               *)
(***************************************************************************)

Table == sched_state.process_table
Pcbs  == DOMAIN heap

\* the PCBs reached from head along next, each once, in order
RECURSIVE Chain(_, _, _)
Chain(nextOf, p, seen) ==
    IF p = NULL \/ p \in seen THEN <<>>
    ELSE <<p>> \o Chain(nextOf, nextOf[p], seen \cup {p})

ReadyQueue ==
    IF booted = "sched"
    THEN Chain([s \in Slots |-> Table[s].next], sched_state.ready_queue, {})
    ELSE Chain([p \in Pcbs |-> heap[p].next], pm.ready_queue, {})

PriorityOf(p) == IF booted = "sched" THEN Table[p].priority ELSE heap[p].priority

\* a occurs before b in sequence s
Before(s, a, b) == \E m, n \in DOMAIN s : m < n /\ s[m] = a /\ s[n] = b

C2_ScheduleNotGated ==
    (booted = "sched" /\ current_process # NULL /\ sched_state.ready_queue # NULL) =>
        LET k == schedule(SchedK)
        IN  /\ k.cp = sched_state.ready_queue
            /\ k.ss.process_table[sched_state.ready_queue].state = "RUNNING"

\* C3: terminate_process(pid) by a current PCB changes something only when the
\* caller's classification is <= the target's; when it is greater, the table
\* (the target's state with it), the ready queue and the process count stay
C3_NoWriteDown ==
    booted = "sched" =>
        \A pid \in 0 .. MaxPid :
            LET proc == get_process(SchedK, pid)
                k    == terminate_process(SchedK, pid)
            IN  (current_process # NULL /\ proc # NULL) =>
                    /\ k # SchedK =>
                           Table[current_process].sec_level <= Table[proc].sec_level
                    /\ Table[current_process].sec_level > Table[proc].sec_level =>
                           /\ k.ss.process_table = Table
                           /\ k.ss.ready_queue = sched_state.ready_queue
                           /\ k.ss.total_processes = sched_state.total_processes
                           /\ k.cp = current_process

\* a PCB was terminated before, and here the current PCB is classified above a
\* live PCB, which terminate_process then refuses to touch
C3_Witness ==
    /\ booted = "sched"
    /\ \E s \in Slots : Table[s].state = "DEAD" /\ Table[s].pid # 0
    /\ current_process # NULL
    /\ \E s \in Slots :
           /\ Table[s].state = "READY"
           /\ Table[current_process].sec_level > Table[s].sec_level
           /\ terminate_process(SchedK, Table[s].pid) = SchedK

\* C4: between operations the ready queue is sorted by descending priority and
\* PCBs of equal priority stand in it in the order they were enqueued
C4_ReadyQueueSortedFifo ==
    ~hung =>
        \A i, j \in DOMAIN ReadyQueue :
            i < j =>
                /\ PriorityOf(ReadyQueue[i]) >= PriorityOf(ReadyQueue[j])
                /\ PriorityOf(ReadyQueue[i]) = PriorityOf(ReadyQueue[j]) =>
                       Before(enq, ReadyQueue[i], ReadyQueue[j])

\* C5: waitpid by the running process on a child of its own that is not ZOMBIE
\* leaves the caller BLOCKED
C5_WaitpidBlocksCaller ==
    (booted = "proc" /\ ~hung /\ pm.current_process # NULL) =>
        \A pid \in 0 .. MaxPcb :
            LET cur   == pm.current_process
                child == FindByPid(ProcK, pid)
                r     == syscall_handler(ProcK, NoEnv, SYS_WAITPID, pid, 0, 0)
            IN  ( /\ child \notin {NULL, HANG, cur}
                  /\ heap[child].ppid = heap[cur].pid
                  /\ heap[child].state # "ZOMBIE" ) =>
                    r.k.heap[cur].state = "BLOCKED"

\* C6: waitpid by the running process on a ZOMBIE child of its own returns the
\* status the child passed to exit, releases the child and makes its pid
\* unfindable
C6_WaitpidReapsZombie ==
    (booted = "proc" /\ ~hung /\ pm.current_process # NULL) =>
        \A c \in Pcbs :
            LET cur == pm.current_process
                r   == syscall_handler(ProcK, NoEnv, SYS_WAITPID, heap[c].pid, 0, 0)
            IN  ( /\ c # cur
                  /\ heap[cur].state = "RUNNING"
                  /\ heap[c].ppid = heap[cur].pid
                  /\ heap[c].state = "ZOMBIE" ) =>
                    /\ r.ret = exit_code[c]
                    /\ r.k.heap[c].freed # ""
                    /\ FindByPid(r.k, heap[c].pid) # c

\* C7: a ZOMBIE PCB is released by sys_waitpid only, and until then it is found
\* by its pid
C7_ZombieUntilWaitpid ==
    booted = "proc" =>
        \A p \in Pcbs :
            heap[p].state = "ZOMBIE" =>
                /\ heap[p].freed \in {"", "sys_waitpid"}
                /\ (heap[p].freed = "" /\ ~hung) => FindByPid(ProcK, heap[p].pid) = p

\* C8: when schedule() dispatches the idle PCB (PID 0), no other PCB was READY
\* at that moment
C8_IdleOnlyWhenQueueEmpty ==
    booted = "sched" =>
        LET k == schedule(SchedK)
        IN  ( /\ k.cp # NULL
              /\ k.cp # current_process
              /\ k.ss.process_table[k.cp].pid = 0 ) =>
                \A s \in Slots \ {k.cp} : Table[s].state # "READY"

\* n calls of scheduler_timer_interrupt in a row
RECURSIVE TimerCalls(_, _)
TimerCalls(k, n) == IF n = 0 THEN k ELSE TimerCalls(scheduler_timer_interrupt(k), n - 1)

\* C9: a quantum of timer interrupts, with nothing else happening, reaches
\* process_schedule, and a READY process then replaces the running one.  (A
\* call that does not reach process_schedule changes nothing, so what ten
\* calls do not do no number of calls does.)
C9_TimerSchedules ==
    (booted = "proc" /\ ~hung) =>
        LET k == TimerCalls(ProcK, TIMER_QUANTUM)
        IN  /\ k.pm.scheduler_ticks > pm.scheduler_ticks
            /\ pm.ready_queue # NULL => k.pm.current_process # pm.current_process

\* C10: no live PCB but idle has PID 0, live PCBs have distinct PIDs, and a PCB
\* created later has the greater PID
C10_PidsIncrease ==
    /\ booted = "sched" =>
           \A s, t \in Slots :
               (Table[s].state # "DEAD" /\ Table[t].state # "DEAD" /\ s # t) =>
                   /\ Table[s].pid # Table[t].pid
                   /\ Table[s].pid < sched_state.next_pid
                   /\ Table[s].pid = 0 => s = 1
    /\ booted = "proc" =>
           \A p, q \in Pcbs :
               /\ heap[p].pid # 0
               /\ (p < q /\ heap[p].freed = "" /\ heap[q].freed = "") =>
                      heap[p].pid < heap[q].pid

\* C11: for every number that is out of range (>= SYS_MAX) or whose slot
\* syscall_init left empty, under every allow-list and for every running
\* process, syscall_handler returns -38 (ENOSYS), invokes no handler and
\* changes nothing.  Every such number is tried where the calls are run; in
\* the run of the process operations, one unbound number and the first number
\* out of range.
C11_UnknownSyscall ==
    (booted # "sched" /\ ~hung) =>
        \A p \in Policies,
           n \in IF booted = "file" THEN 0 .. SYS_MAX + 1 ELSE {SYS_CHDIR, SYS_MAX} :
            (n >= SYS_MAX \/ syscall_table(n) = "NULL") =>
                LET r == syscall_handler(ProcK, ProcEnv(p), n, 0, 0, 0)
                IN  /\ r.ret = -38
                    /\ r.handler = "NULL"
                    /\ r.k = ProcK

\* a created process is running, a file is open, and the call of an unbound
\* number (chdir) and of SYS_MAX under the allow-list that refuses every call
\* are answered -38
C11_Witness ==
    /\ booted = "file"
    /\ pm.current_process \notin {NULL, 1}
    /\ \E fd \in Fds : file_table[fd].inode # NULL
    /\ \A n \in {SYS_CHDIR, SYS_MAX} :
           syscall_handler(ProcK, ProcEnv(<<0 .. SYS_MAX, SEC_PENTAGON + 1>>),
                           n, 0, 0, 0).ret = -38

\* C12: when the allow-list refuses a bound number to the classification of the
\* running process, syscall_handler returns -1 (EPERM), passes one
\* SYSCALL_DENIED record to security_audit_log, invokes no handler and changes
\* nothing
C12_DeniedCallRefused ==
    (booted # "sched" /\ ~hung /\ pm.current_process # NULL) =>
        \A p \in Policies, n \in 0 .. SYS_MAX - 1 :
            ( /\ syscall_table(n) # "NULL"
              /\ security_validate_syscall(ProcEnv(p), n, heap[pm.current_process]) # 0 ) =>
                LET r == syscall_handler(ProcK, ProcEnv(p), n, 0, 0, 0)
                IN  /\ r.ret = -1
                    /\ r.audit = << <<"SYSCALL_DENIED", heap[pm.current_process].pid, n>> >>
                    /\ r.handler = "NULL"
                    /\ r.k = ProcK

\* C13: a call dispatched for a running process classified SECRET (2) or above
\* reaches its handler only with a SYSCALL record naming the caller and the
\* number passed to security_audit_log
C13_SecretCallAudited ==
    ( /\ booted # "sched" /\ ~hung /\ pm.current_process # NULL
      /\ heap[pm.current_process].security_level >= SEC_SECRET ) =>
        \A n \in 0 .. SYS_MAX - 1 :
            LET r == syscall_handler(ProcK, NoEnv, n, 0, 0, 0)
            IN  r.handler # "NULL" =>
                    \E i \in DOMAIN r.audit :
                        r.audit[i] = <<"SYSCALL", heap[pm.current_process].pid, n>>

\* C14: the bound slots of the dispatch table are the numbers
\* {0,1,3,4,5,39,59,61,62,12,9,60}, and the number each user-space stub passes
\* is dispatched to the handler of the same call
C14_StubsReachHandlers ==
    (booted # "sched" /\ ~hung) =>
        /\ {n \in 0 .. SYS_MAX - 1 : syscall_table(n) # "NULL"}
               = {0, 1, 3, 4, 5, 39, 59, 61, 62, 12, 9, 60}
        /\ \A call \in MandatoryCalls :
               syscall_handler(ProcK, NoEnv, StubNumber(call), 0, 0, 0).handler = call

\* C15: the exit call of a running process, whatever the status, returns no
\* error code and leaves the caller ZOMBIE, not RUNNING
C15_ExitNeverFails ==
    (booted # "sched" /\ ~hung /\ pm.current_process # NULL) =>
        \A status \in ExitCodes :
            LET cur == pm.current_process
                r   == syscall_handler(ProcK, NoEnv, SYS_EXIT, status, 0, 0)
            IN  /\ r.handler = "sys_exit"
                /\ r.ret >= 0
                /\ r.k.heap[cur].state = "ZOMBIE"

\* C16: the ref_count of every file_table entry equals the number of PCBs whose
\* open_files slot of that number is set
C16_RefCountCountsSlots ==
    booted # "sched" =>
        \A fd \in Fds :
            file_table[fd].ref_count =
                Cardinality({p \in Pcbs : heap[p].freed = "" /\ fd \in heap[p].open_files})

\* C17: read, write and close by the running process on a descriptor it
\* neither opened nor holds in its open_files (the standard descriptors 0, 1
\* and 2 set aside) return -9 (EBADF) and leave the file table as it is, also
\* when another process has that descriptor open
C17_DescriptorsOwned ==
    (booted = "file" /\ ~hung /\ pm.current_process # NULL) =>
        \A fd \in Fds :
            ( /\ fd >= FIRST_FD
              /\ file_table[fd].opener # pm.current_process
              /\ fd \notin heap[pm.current_process].open_files ) =>
                /\ LET r == syscall_handler(ProcK, NoEnv, SYS_CLOSE, fd, 0, 0)
                   IN  r.ret = -9 /\ r.k.file_table = file_table
                /\ \A n \in {SYS_READ, SYS_WRITE}, bytes \in IoResults(MaxCount) :
                       LET r == syscall_handler(ProcK, Env({}, 0, NULL, NULL, -1, bytes),
                                                n, fd, 1, MaxCount)
                       IN  r.ret = -9 /\ r.k.file_table = file_table

\* C18: on both paths a read that moves bytes needs the read bit (0x01) in
\* the flags the file was opened with and a write the write bit (0x02); without
\* the bit the call fails, performs no file-system operation and leaves the
\* file table, the offset with it, as it is
C18_CapabilityChecked ==
    (booted = "file" /\ ~hung) =>
        \A fd \in Fds, bytes \in IoResults(MaxCount) :
            file_table[fd].inode # NULL =>
                LET env == Env({}, 0, NULL, NULL, -1, bytes)
                    rd  == syscall_handler(ProcK, env, SYS_READ, fd, 1, MaxCount)
                    wr  == syscall_handler(ProcK, env, SYS_WRITE, fd, 1, MaxCount)
                    vrd == vfs_read(<<file_table[fd]>>, 1, MaxCount, TRUE, bytes)
                    vwr == vfs_write(<<file_table[fd]>>, 1, MaxCount, TRUE, bytes)
                IN  /\ ~HasBit(file_table[fd].flags, READ_BIT) =>
                           /\ vrd.ret < 0 /\ vrd.driver = "none"
                           /\ rd.ret < 0 /\ rd.driver = "none"
                           /\ rd.k.file_table = file_table
                    /\ ~HasBit(file_table[fd].flags, WRITE_BIT) =>
                           /\ vwr.ret < 0 /\ vwr.driver = "none"
                           /\ wr.ret < 0 /\ wr.driver = "none"
                           /\ wr.k.file_table = file_table

\* C19: a write of zero bytes from a valid buffer to the console descriptors
\* or to an open file returns 0, prints nothing, performs no file-system write
\* and changes nothing, on the system-call path and on the vfs_write path
C19_ZeroByteWrite ==
    (booted # "sched" /\ ~hung) =>
        \A fd \in Fds :
            (fd \in {1, 2} \/ file_table[fd].inode # NULL) =>
                LET r == syscall_handler(ProcK, Env({}, 0, NULL, NULL, -1, 0),
                                         SYS_WRITE, fd, 1, 0)
                IN  /\ r.ret = 0
                    /\ r.console = 0
                    /\ r.driver = "none"
                    /\ r.k = ProcK
                    /\ file_table[fd].inode # NULL =>
                           vfs_write(<<file_table[fd]>>, 1, 0, TRUE, 0)
                               = [ret |-> 0, driver |-> "none"]

\* a request of size bytes does not fit in what is left of the heap kmalloc
\* takes it from: the early heap before mm_init has set initialized, the
\* 256 MiB window at KERNEL_HEAP_START after
HeapExhausted(m, size) ==
    IF m.initialized
    THEN m.kernel_heap_ptr \div 8 + AlignUp(size, 8) \div 8 > KERNEL_HEAP_SIZE \div 8
    ELSE m.early_heap_offset + AlignUp(size, 8) > EARLY_HEAP_SIZE

\* C27: kmalloc and kmalloc_aligned never panic, and a request that does not
\* fit in what is left of the heap returns a failure to its caller
C27_ExhaustionReported ==
    booted = "heap" /\ mm_state.panic = "" =>
        \A size \in SizeInputs :
            /\ LET r == kmalloc(mm_state, size)
               IN  /\ r.m.panic = ""
                   /\ HeapExhausted(mm_state, size) => r.ret = NOPAGE
            /\ \A alignment \in AlignInputs :
                   LET a == IF mm_state.initialized
                            THEN [mm_state EXCEPT !.kernel_heap_ptr = AlignUp(@, alignment)]
                            ELSE [mm_state EXCEPT !.early_heap_offset = AlignUp(@, alignment)]
                       r == kmalloc_aligned(mm_state, size, alignment)
                   IN  /\ r.m.panic = ""
                       /\ HeapExhausted(a, size) => r.ret = NOPAGE

\* the calls of a trace that reach a driver or change the state of the kernel
DriverOrChange ==
    {"ops.mount", "ops.get_super", "ops.unmount", "ops.open", "ops.mkdir",
     "ops.rmdir", "kmalloc", "kfree"}

GatedCalls == {"vfs_mount", "vfs_unmount", "vfs_open", "vfs_mkdir", "vfs_rmdir"}

\* the call that was just made was refused by check_path_security
Refused(last) ==
    \E i \in 1 .. Len(last.trace) : last.trace[i] = "security_audit_log DENIED"

\* C28: in vfs_mount, vfs_unmount, vfs_open, vfs_mkdir and vfs_rmdir
\* check_path_security is called before any driver function and before any
\* change of state, and a call it refuses fails having called no driver and
\* changed nothing
C28_PolicyBeforeDriver ==
    [][vfs_last'.op \in GatedCalls =>
           LET t == vfs_last'.trace
           IN  /\ \A i \in 1 .. Len(t) :
                      t[i] \in DriverOrChange =>
                          \E j \in 1 .. i - 1 : t[j] = "check_path_security"
               /\ (vfs_state' # vfs_state \/ mm_state' # mm_state) =>
                      \E j \in 1 .. Len(t) : t[j] = "check_path_security"
               /\ Refused(vfs_last') =>
                      /\ \A i \in 1 .. Len(t) : t[i] \notin DriverOrChange
                      /\ vfs_state' = vfs_state /\ mm_state' = mm_state
                      /\ IF vfs_last'.op = "vfs_open" THEN vfs_last'.ret = <<>>
                         ELSE vfs_last'.ret = -1]_vars

\* a mount on a path under /secret/ was asked of a registered driver by a
\* process below SECRET, and was refused
C28_Witness ==
    /\ booted = "vfs"
    /\ vfs_state.registered_filesystems # <<>>
    /\ vfs_last.op = "vfs_mount" /\ Refused(vfs_last) /\ vfs_last.ret = -1

\* the paths, operations and processes check_path_security is tried on
PolicyPaths ==
    PathInputs \cup MountInputs
        \cup {<<"/", "s", "y", "s", "t", "e", "m">>,
              <<"/", "p", "e", "n", "t", "a", "g", "o", "n", "/", "a">>,
              <<"/", "b", "/", "c", "l", "a", "s", "s", "i", "f", "i", "e", "d", "/", "a">>,
              <<"s", "y", "s", "t", "e", "m", "/", "a">>}

PolicyCallers ==
    {<<[security_level |-> l, uid |-> u, gid |-> u]>> :
         l \in {0, SEC_SECRET - 1, SEC_SECRET, SEC_PENTAGON}, u \in {0, 1}}

\* C29: check_path_security refuses a request exactly when the path contains
\* /classified/, /secret/ or /pentagon/ and the caller is below SECRET, or the
\* operation is a write, the path begins with /system/ and the caller's uid
\* is not 0
C29_DefaultPolicy ==
    booted = "vfs" =>
        \A path \in PolicyPaths, operation \in 0 .. 3, cur \in PolicyCallers :
            check_path_security(cur, path, operation) # 0
                <=> \/ /\ \/ strstr(path, CLASSIFIED_DIR)
                          \/ strstr(path, SECRET_DIR)
                          \/ strstr(path, PENTAGON_DIR)
                       /\ cur[1].security_level < SEC_SECRET
                    \/ /\ HasBit(operation, WRITE_OP)
                       /\ strncmp_prefix(path, SYSTEM_DIR)
                       /\ cur[1].uid # 0

\* the mounts whose path is a prefix of path, by place in the list
Matching(v, path) ==
    {i \in 1 .. Len(v.mount_points) : strncmp_prefix(path, v.mount_points[i].path)}

\* C30: when the path of some mount is a prefix of the argument,
\* find_mount_point returns the mount with the longest such path, and of
\* several of that length the one mounted last (the one nearest the head)
C30_LongestPrefixLatest ==
    booted = "vfs" =>
        \A path \in PathInputs \cup MountInputs :
            LET matching == Matching(vfs_state, path)
                longest  == {i \in matching :
                                 \A j \in matching :
                                     strlen(vfs_state.mount_points[j].path)
                                         <= strlen(vfs_state.mount_points[i].path)}
            IN  matching # {} =>
                    /\ find_mount_point(vfs_state, path) \in longest
                    /\ \A i \in longest : find_mount_point(vfs_state, path) <= i

\* what holds of find_mount_point: the same, over the mounts whose path is
\* not the empty string
C30_Observed ==
    booted = "vfs" =>
        \A path \in PathInputs \cup MountInputs :
            LET matching == {i \in Matching(vfs_state, path) :
                                 vfs_state.mount_points[i].path # <<>>}
                longest  == {i \in matching :
                                 \A j \in matching :
                                     strlen(vfs_state.mount_points[j].path)
                                         <= strlen(vfs_state.mount_points[i].path)}
            IN  matching # {} =>
                    /\ find_mount_point(vfs_state, path) \in longest
                    /\ \A i \in longest : find_mount_point(vfs_state, path) <= i

(***************************************************************************)
(* vfs.c: mounting and unmounting.                                         *)
(***************************************************************************)

\* C31: in every state of the mount list, when vfs_mount of a mount point
\* succeeds and a vfs_unmount of the same mount point then succeeds (for
\* every caller of either and every answer of the driver), the mount list is
\* the list before the mount: the same mounts in the same order.
C31_MountUnmountRestores ==
    booted = "vfs" =>
        \A a \in MountArgs, cur \in Callers :
          \A env \in MountEnvs(vfs_state, a[1], a[3]) :
            LET r == vfs_mount(vfs_state, mm_state, cur, a[1], a[2], a[3], 0, env)
            IN  r.ret = 0 =>
                    \A cur2 \in Callers, rc \in ReturnCodes :
                        LET u == vfs_unmount(r.v, r.m, cur2, a[2], [unmount |-> rc])
                        IN  u.ret = 0 => u.v.mount_points = vfs_state.mount_points

\* a mount list that already holds a mount of some mount point, on which a
\* second mount of that mount point by another caller and its unmount both
\* succeed
C31_Witness ==
    /\ booted = "vfs"
    /\ \E a \in MountArgs, cur \in Callers, cur2 \in Callers :
         \E env \in MountEnvs(vfs_state, a[1], a[3]) :
           LET r == vfs_mount(vfs_state, mm_state, cur, a[1], a[2], a[3], 0, env)
               u == vfs_unmount(r.v, r.m, cur2, a[2], [unmount |-> 0])
           IN  /\ r.ret = 0 /\ u.ret = 0
               /\ \E i \in 1 .. Len(vfs_state.mount_points) :
                      /\ vfs_state.mount_points[i].path = a[2][1]
                      /\ vfs_state.mount_points[i] # r.v.mount_points[1]

(***************************************************************************)
(* process.c, syscalls.c: the scheduler lock.                              *)
(***************************************************************************)

\* every write of the PCB table between two of the states is made with the
\* scheduler lock held
WritesUnderLock(passes) ==
    \A i \in 1 .. Len(passes) - 1 :
        PcbTable(passes[i]) # PcbTable(passes[i + 1]) =>
            /\ passes[i].pm.scheduler_lock = 1
            /\ passes[i + 1].pm.scheduler_lock = 1

\* C32: in every state, whichever of process_create, process_schedule,
\* process_exit, process_destroy, fork, kill and waitpid is called or makes
\* one more pass, every insertion, removal and change of state of a PCB it
\* makes is made while it holds the scheduler lock.
C32_PcbWritesUnderLock ==
    (booted = "proc" /\ ~hung) =>
        /\ WritesUnderLock(ProcessPasses(ProcK, "process_create", 0))
        /\ WritesUnderLock(ProcessPasses(ProcK, "process_schedule", 0))
        /\ WritesUnderLock(SyscallPasses(ProcK, "sys_fork", 0))
        /\ \A status \in ExitCodes :
               /\ WritesUnderLock(ProcessPasses(ProcK, "process_exit", status))
               /\ WritesUnderLock(SyscallPasses(ProcK, "sys_exit", status))
        /\ \A pid \in 0 .. MaxPcb :
               /\ WritesUnderLock(ProcessPasses(ProcK, "process_destroy", pid))
               /\ WritesUnderLock(SyscallPasses(ProcK, "sys_kill", pid))
               /\ WritesUnderLock(SyscallPasses(ProcK, "sys_waitpid", pid))
        /\ waiting # NULL => WritesUnderLock(SyscallPasses(ProcK, "again", waiting))

\* what the code does keep: process_create and process_schedule write the PCB
\* table under the lock only
C32_Observed ==
    (booted = "proc" /\ ~hung) =>
        /\ WritesUnderLock(ProcessPasses(ProcK, "process_create", 0))
        /\ WritesUnderLock(ProcessPasses(ProcK, "process_schedule", 0))

(***************************************************************************)
(* scheduler.c: the process table at capacity.                             *)
(***************************************************************************)

\* no slot of the process table is DEAD
TableFull == \A s \in Slots : sched_state.process_table[s].state # "DEAD"

\* C33: in every state in which no slot of the process table is DEAD,
\* create_process returns NULL, for every security level asked, and leaves
\* the process table, the ready queue, next_pid, total_processes and the
\* current process as they were.
C33_CreateAtCapacityFails ==
    (booted = "sched" /\ TableFull) =>
        \A lvl \in SecInputs :
            LET r == create_process(SchedK, lvl)
            IN  r.proc = NULL /\ r.k = SchedK

\* a full table, with a process on the ready queue, in which a creation has
\* just been refused
C33_Witness ==
    /\ booted = "sched" /\ TableFull
    /\ sched_state.ready_queue # NULL
    /\ sched_state.total_processes = TableSize - 1
    /\ \E lvl \in SecInputs : create_process(SchedK, lvl).proc = NULL

(***************************************************************************)
(* The ready queues and the states of the PCBs.                            *)
(***************************************************************************)

\* the PCBs on the ready queue
OnReadyQueue == {ReadyQueue[i] : i \in DOMAIN ReadyQueue}

\* the ready queue of scheduler.c holds the READY slots and no other
ReadySlotsQueued ==
    booted = "sched" => OnReadyQueue = {s \in Slots : Table[s].state = "READY"}

\* the ready queue of process.c holds the READY PCBs that have not been
\* released and no other
ReadyPcbsQueued ==
    (booted = "proc" /\ ~hung) =>
        OnReadyQueue = {p \in Pcbs : heap[p].state = "READY" /\ heap[p].freed = ""}

\* C34: in every reachable state the ready queue holds exactly the PCBs
\* whose state is READY: every READY PCB is on it, and no PCB that is
\* RUNNING, BLOCKED, ZOMBIE, TERMINATED or DEAD is.
C34_ReadyQueueIsReadySet == ReadySlotsQueued /\ ReadyPcbsQueued

\* the slots of table t that are RUNNING
RunningSlots(t) == {s \in Slots : t[s].state = "RUNNING"}

\* C35: when terminate_process is applied to the current PCB while another
\* PCB is READY, on return exactly one PCB is RUNNING and current_process
\* refers to it, and the same holds after a following schedule().
C35_TerminateCurrentDispatches ==
    booted = "sched" =>
        \A pid \in 0 .. MaxPid :
            LET proc == get_process(SchedK, pid)
                k    == terminate_process(SchedK, pid)
                k2   == schedule(k)
            IN  ( /\ proc # NULL /\ proc = current_process
                  /\ \E s \in Slots : Table[s].state = "READY" ) =>
                    /\ k.cp # NULL /\ RunningSlots(k.ss.process_table) = {k.cp}
                    /\ k2.cp # NULL /\ RunningSlots(k2.ss.process_table) = {k2.cp}

\* C36: a process for which kill has returned success is never dispatched
\* again.  sys_kill is the only writer of TERMINATED, so a PCB in that state
\* is one a kill has succeeded on and that has not run since: no step makes
\* it RUNNING, and no step makes it the current process.
C36_KilledNeverDispatched ==
    [][booted = "proc" =>
          \A p \in Pcbs :
              heap[p].state = "TERMINATED" =>
                  /\ heap'[p].state # "RUNNING"
                  /\ pm'.current_process = p => pm.current_process = p]_vars

(***************************************************************************)
(* process.c: the process list.                                            *)
(***************************************************************************)

\* the states reached from k by at most n calls, each a process_create or a
\* process_schedule
RECURSIVE CreateScheduleRuns(_, _)
CreateScheduleRuns(k, n) ==
    IF n = 0 \/ k.hung THEN {k}
    ELSE {k} \cup CreateScheduleRuns(process_create(k).k, n - 1)
             \cup CreateScheduleRuns(process_schedule(k), n - 1)

\* C37: after process_init and any sequence of process_create and
\* process_schedule calls (up to MaxPcb of them), process_find_by_pid finds
\* every PCB that has been created and not released, by its PID, init
\* included.
C37_ProcessListHoldsLive ==
    InitProc =>
        \A k \in CreateScheduleRuns(ProcK, MaxPcb) :
            ~k.hung =>
                \A p \in DOMAIN k.heap :
                    k.heap[p].freed = "" => FindByPid(k, k.heap[p].pid) = p

\* the same, for the PCBs whose PID no other PCB has
C37_DistinctPidsFound ==
    InitProc =>
        \A k \in CreateScheduleRuns(ProcK, MaxPcb) :
            ~k.hung =>
                \A p \in DOMAIN k.heap :
                    ( /\ k.heap[p].freed = ""
                      /\ \A q \in DOMAIN k.heap \ {p} : k.heap[q].pid # k.heap[p].pid ) =>
                        FindByPid(k, k.heap[p].pid) = p

(***************************************************************************)
(* scheduler.c: round-robin.                                               *)
(***************************************************************************)

\* C38: round-robin is starvation-free among equal priorities.  Once no
\* process is created or terminated any more and scheduling decisions keep
\* occurring, every READY PCB of the priority create_process gives is
\* eventually dispatched (it becomes RUNNING), in the runs in which a
\* process is current and every PCB has the classification of idle, so that
\* security_check refuses no decision.
C38_RoundRobinStarvationFree ==
    \A s \in Slots :
        [](( /\ booted = "sched" /\ Settled
             /\ current_process # NULL
             /\ \A t \in Slots : sched_state.process_table[t].state # "DEAD" =>
                    sched_state.process_table[t].sec_level = SEC_PENTAGON
             /\ sched_state.process_table[s].priority = SCHED_PRIORITY
             /\ sched_state.process_table[s].state = "READY" ) =>
               <>(sched_state.process_table[s].state = "RUNNING"))

\* the same for every READY PCB, whatever the priorities, the
\* classifications and the current process
ReadyEventuallyRuns ==
    \A s \in Slots :
        [](( /\ booted = "sched" /\ Settled
             /\ sched_state.process_table[s].state = "READY" ) =>
               <>(sched_state.process_table[s].state = "RUNNING"))

(***************************************************************************)
(* window_manager.c: the ids of the windows.                               *)
(***************************************************************************)

\* the slots holding a window that gui_create_window made and no
\* gui_destroy_window took away since: the ones that own a framebuffer.  A
\* process that was killed has no window
LiveWindows ==
    IF gui_crashed THEN {}
    ELSE {i \in WindowSlots : gui_manager.windows[i].framebuffer}

\* C39: live windows always have pairwise distinct non-zero window ids,
\* after any sequence of gui_create_window and gui_destroy_window calls, so
\* that a window id names exactly one window.
C39_LiveWindowIdsDistinct ==
    booted = "gui" =>
        \A i \in LiveWindows :
            /\ gui_manager.windows[i].window_id # 0
            /\ \A j \in LiveWindows :
                   i # j => gui_manager.windows[i].window_id
                                # gui_manager.windows[j].window_id

\* the same for the windows the file itself takes for used (window_id not 0):
\* no two of them share an id
C39_UsedWindowIdsDistinct ==
    (booted = "gui" /\ ~gui_crashed) =>
        \A i, j \in WindowSlots :
            (i # j /\ gui_manager.windows[i].window_id # 0)
            => gui_manager.windows[i].window_id # gui_manager.windows[j].window_id

\* the windows keep distinct non-zero ids as long as no window but the one
\* created last was destroyed: every call so far made a window
\* (gui_create_window, gui_show_security_status)
C39_DistinctWhileOnlyCreated ==
    (booted = "gui" /\ gui_manager.active_windows = gui_ops) =>
        \A i \in LiveWindows :
            /\ gui_manager.windows[i].window_id # 0
            /\ \A j \in LiveWindows :
                   i # j => gui_manager.windows[i].window_id
                                # gui_manager.windows[j].window_id

====
